---- MODULE Spec2Model ----
(***************************************************************************)
(* git-autometa: the Jira wiki markup -> Markdown converter                *)
(* (internal/markdown, ConvertJiraToMarkdown and its stage functions).     *)
(*                                                                         *)
(* A document is a sequence of one-character strings.  Every regular       *)
(* expression of the source is modelled by a scanner that yields the match *)
(* Go's regexp package yields (leftmost match, greedy and lazy quantifiers *)
(* in priority order), and every strings.* helper by what it computes.     *)
(***************************************************************************)
EXTENDS Integers, Sequences, FiniteSets, TLC

\* text: the argument of ConvertJiraToMarkdown; s: its local s; loc: the local s of a
\* running convertCodeBlocks / convertQuoteBlocks call; pc: the statement to run next;
\* hist: the stage calls made so far, each with its argument and its result;
\* shape: how the argument was put together (its construct and the text around it),
\* which no statement reads
VARIABLES text, s, loc, pc, hist, shape

vars == <<text, s, loc, pc, hist, shape>>

(***************************************************************************)
(* Characters and literals of the source                                   *)
(***************************************************************************)
NL == "\n"
CR == "\r"
TAB == "\t"
SP == " "

\* unicode.IsSpace restricted to the characters documents are built from
SpaceChars == {SP, TAB, NL, CR}

\* the class \s of Go's regexp syntax: [\t\n\f\r ]
ReSpace == {SP, TAB, NL, CR}

CodeOpen == <<"{", "c", "o", "d", "e">>
CodeTag == <<"{", "c", "o", "d", "e", "}">>
QuoteTag == <<"{", "q", "u", "o", "t", "e", "}">>
\* the backtick cannot be written in a TLA+ string: BT stands for it
BT == "BT"
Fence == <<BT, BT, BT>>
HttpLit == <<"h", "t", "t", "p">>
SchemeSep == <<":", "/", "/">>

(***************************************************************************)
(* strings.* helpers                                                       *)
(***************************************************************************)
Min(S) == CHOOSE x \in S : \A y \in S : x <= y

\* p occurs in str at index i (1-based)
HasPrefixAt(str, i, p) ==
    /\ i >= 1
    /\ i + Len(p) - 1 <= Len(str)
    /\ \A k \in 1..Len(p) : str[i + k - 1] = p[k]

\* index of the first occurrence of p in str at or after i, 0 when there is none
IndexFrom(str, p, i) ==
    LET J == {j \in i..(Len(str) - Len(p) + 1) : HasPrefixAt(str, j, p)}
    IN  IF J = {} THEN 0 ELSE Min(J)

\* strings.Contains
Contains(str, p) == IndexFrom(str, p, 1) # 0

\* one past the longest run, starting at i, of characters in cs
RunEndIn(str, i, cs) ==
    LET J == {j \in i..Len(str) : str[j] \notin cs}
    IN  IF J = {} THEN Len(str) + 1 ELSE Min(J)

\* one past the longest run, starting at i, of characters not in cs
RunEndNotIn(str, i, cs) ==
    LET J == {j \in i..Len(str) : str[j] \in cs}
    IN  IF J = {} THEN Len(str) + 1 ELSE Min(J)

RECURSIVE ReplaceAllFrom(_, _, _, _)
ReplaceAllFrom(str, old, new, i) ==
    IF i > Len(str) THEN <<>>
    ELSE IF HasPrefixAt(str, i, old)
         THEN new \o ReplaceAllFrom(str, old, new, i + Len(old))
         ELSE <<str[i]>> \o ReplaceAllFrom(str, old, new, i + 1)

\* strings.ReplaceAll (old is never empty here)
ReplaceAll(str, old, new) == ReplaceAllFrom(str, old, new, 1)

RECURSIVE SplitFrom(_, _, _)
SplitFrom(str, c, i) ==
    LET j == RunEndNotIn(str, i, {c})
    IN  IF j > Len(str) THEN <<SubSeq(str, i, Len(str))>>
        ELSE <<SubSeq(str, i, j - 1)>> \o SplitFrom(str, c, j + 1)

\* strings.Split on a one-character separator: Split("") is one empty string
Split(str, c) == SplitFrom(str, c, 1)

RECURSIVE Join(_, _)
\* strings.Join
Join(parts, sep) ==
    IF Len(parts) = 0 THEN <<>>
    ELSE IF Len(parts) = 1 THEN parts[1]
    ELSE parts[1] \o sep \o Join(Tail(parts), sep)

RECURSIVE Repeat(_, _)
\* strings.Repeat for a count >= 0
Repeat(str, n) == IF n <= 0 THEN <<>> ELSE str \o Repeat(str, n - 1)

\* strings.TrimRight(str, cutset)
TrimRight(str, cs) ==
    LET K == {k \in 1..Len(str) : str[k] \notin cs}
    IN  IF K = {} THEN <<>> ELSE SubSeq(str, 1, CHOOSE k \in K : \A j \in K : j <= k)

\* strings.TrimLeft(str, cutset)
TrimLeft(str, cs) == SubSeq(str, RunEndIn(str, 1, cs), Len(str))

\* strings.Trim(str, cutset)
Trim(str, cs) == TrimRight(TrimLeft(str, cs), cs)

\* strings.TrimSpace
TrimSpace(str) == Trim(str, SpaceChars)

RECURSIVE FieldsFrom(_, _)
FieldsFrom(str, i) ==
    LET b == RunEndIn(str, i, SpaceChars)
        e == RunEndNotIn(str, b, SpaceChars)
    IN  IF b > Len(str) THEN <<>>
        ELSE <<SubSeq(str, b, e - 1)>> \o FieldsFrom(str, e)

\* strings.Fields
Fields(str) == FieldsFrom(str, 1)

\* multi-line mode ^ : at the start of the text or right after a newline
LineStartAt(str, i) == i = 1 \/ (i >= 2 /\ i - 1 <= Len(str) /\ str[i - 1] = NL)

(***************************************************************************)
(* Normalize newlines (ConvertJiraToMarkdown, first step)                  *)
(***************************************************************************)
\* variant: the lone \r replaced before the \r\n pair
normalizeCrFirst(str) == ReplaceAll(ReplaceAll(str, <<CR>>, <<NL>>), <<CR, NL>>, <<NL>>)

normalizeNewlines(str) == ReplaceAll(ReplaceAll(str, <<CR, NL>>, <<NL>>), <<CR>>, <<NL>>)

(***************************************************************************)
\* convertCodeBlocks: (?s)\{code(?::([^}\n]+))?\}\n?(.*?)\n?\{code\}
(***************************************************************************)
\* one past an opener {code} or {code:lang} that starts at i, 0 when none does
codeOpenerEnd(str, i) ==
    IF ~HasPrefixAt(str, i, CodeOpen) THEN 0
    ELSE LET j == i + 5
         IN  IF j <= Len(str) /\ str[j] = ":"
             THEN LET e == RunEndNotIn(str, j + 1, {"}", NL})
                  IN  IF e > j + 1 /\ e <= Len(str) /\ str[e] = "}" THEN e + 1 ELSE 0
             ELSE IF j <= Len(str) /\ str[j] = "}" THEN j + 1 ELSE 0

\* variant: the language of the opener is not read
codeLangDropped(str, i) == <<>>

\* submatch 1 of an opener at i: the language, empty for plain {code}
codeLang(str, i) ==
    IF str[i + 5] = ":" THEN SubSeq(str, i + 6, codeOpenerEnd(str, i) - 2) ELSE <<>>

\* where the lazy body starts: after the opener and the optional newline
blockBodyStart(str, p) == IF p <= Len(str) /\ str[p] = NL THEN p + 1 ELSE p

\* the lazy body (.*?) between b and the closing tag at c: the optional newline
\* before the closing tag is not part of it
blockBody(str, b, c) ==
    IF c - 1 >= b /\ str[c - 1] = NL THEN SubSeq(str, b, c - 2) ELSE SubSeq(str, b, c - 1)

\* variant: an opener without a closing {code} is closed by the end of the text
codeCloserAtOrEnd(str, i) ==
    LET p == codeOpenerEnd(str, i)
        c == IF p = 0 THEN 0 ELSE IndexFrom(str, CodeTag, blockBodyStart(str, p))
    IN  IF p # 0 /\ c = 0 THEN Len(str) + 1 ELSE c

\* variant: the body is matched greedily, up to the last {code} of the text
codeCloserAtLast(str, i) ==
    LET p == codeOpenerEnd(str, i)
        C == {c \in 1..Len(str) : p # 0 /\ c >= blockBodyStart(str, p) /\ HasPrefixAt(str, c, CodeTag)}
    IN  IF C = {} THEN 0 ELSE CHOOSE c \in C : \A d \in C : d <= c

\* the closing {code} of an opener at i, 0 when the regexp does not match at i
codeCloserAt(str, i) ==
    LET p == codeOpenerEnd(str, i)
    IN  IF p = 0 THEN 0 ELSE IndexFrom(str, CodeTag, blockBodyStart(str, p))

\* loc[0] of re.FindStringSubmatchIndex (1-based), 0 for nil
codeFind(str) ==
    LET I == {i \in 1..Len(str) : codeCloserAt(str, i) # 0}
    IN  IF I = {} THEN 0 ELSE Min(I)

\* variant: the body is fenced as matched, its trailing newlines kept
codeFencedKeepsNewlines(str, i) ==
    LET lang == codeLang(str, i)
        c == codeCloserAt(str, i)
        body == blockBody(str, blockBodyStart(str, codeOpenerEnd(str, i)), c)
    IN  Fence \o (IF lang # <<>> THEN TrimSpace(lang) ELSE <<>>)
          \o <<NL>> \o body \o <<NL>> \o Fence

\* the fenced block built from the match at i
codeFenced(str, i) ==
    LET lang == codeLang(str, i)
        c == codeCloserAt(str, i)
        body == blockBody(str, blockBodyStart(str, codeOpenerEnd(str, i)), c)
    IN  Fence \o (IF lang # <<>> THEN TrimSpace(lang) ELSE <<>>)
          \o <<NL>> \o TrimRight(body, {NL}) \o <<NL>> \o Fence

\* variant: the closing marker is left in the text (the rest starts at the marker)
codeBlockStepKeepsCloser(str) ==
    LET i == codeFind(str)
        c == codeCloserAt(str, i)
    IN  SubSeq(str, 1, i - 1) \o codeFenced(str, i) \o SubSeq(str, c, Len(str))

\* one iteration of the loop body: s = s[:loc[0]] + fenced + s[loc[1]:]
codeBlockStep(str) ==
    LET i == codeFind(str)
        c == codeCloserAt(str, i)
    IN  SubSeq(str, 1, i - 1) \o codeFenced(str, i) \o SubSeq(str, c + 6, Len(str))

RECURSIVE convertCodeBlocks(_)
convertCodeBlocks(str) ==
    IF codeFind(str) = 0 THEN str ELSE convertCodeBlocks(codeBlockStep(str))

(***************************************************************************)
\* convertQuoteBlocks: (?s)\{quote\}\n?(.*?)\n?\{quote\}
(***************************************************************************)
quoteCloserAt(str, i) ==
    IF ~HasPrefixAt(str, i, QuoteTag) THEN 0
    ELSE IndexFrom(str, QuoteTag, blockBodyStart(str, i + 7))

quoteFind(str) ==
    LET I == {i \in 1..Len(str) : quoteCloserAt(str, i) # 0}
    IN  IF I = {} THEN 0 ELSE Min(I)

\* variant: every line prefixed with "> ", its trailing spaces kept
quoteLinesKeepSpaces(lines) == [k \in 1..Len(lines) |-> <<">", SP>> \o lines[k]]

\* every line prefixed with "> " and right-trimmed of spaces
quoteLines(lines) == [k \in 1..Len(lines) |-> <<">", SP>> \o TrimRight(lines[k], {SP})]

quoteOut(str, i) ==
    LET c == quoteCloserAt(str, i)
        body == Trim(blockBody(str, blockBodyStart(str, i + 7), c), {NL})
    IN  Join(quoteLines(Split(body, NL)), <<NL>>)

quoteBlockStep(str) ==
    LET i == quoteFind(str)
        c == quoteCloserAt(str, i)
    IN  SubSeq(str, 1, i - 1) \o quoteOut(str, i) \o SubSeq(str, c + 7, Len(str))

RECURSIVE convertQuoteBlocks(_)
convertQuoteBlocks(str) ==
    IF quoteFind(str) = 0 THEN str ELSE convertQuoteBlocks(quoteBlockStep(str))

(***************************************************************************)
\* convertLists: (?m)^(?:[ \t]*)([*#]+)\s+(.*)$
(***************************************************************************)
\* the list line that the regexp matches at line start i, as
\* <<marks, content, one past the match>>, or <<>> when it does not match.
\* \s+ is greedy over the class \s, which holds the newline.
listMatchAt(str, i) ==
    LET m == RunEndIn(str, i, {SP, TAB})
        w == RunEndIn(str, m, {"*", "#"})
        c == RunEndIn(str, w, ReSpace)
        e == RunEndNotIn(str, c, {NL})
    IN  IF w > m /\ c > w THEN <<SubSeq(str, m, w - 1), SubSeq(str, c, e - 1), e>> ELSE <<>>

\* convertLists with the marker taken from the last character of the run
listRenderByLastMark(marks, content) ==
    LET level == Len(marks)
        indent == Repeat(<<SP, SP>>, level - 1)
    IN  IF marks[level] = "*" THEN indent \o <<"-", SP>> \o content
        ELSE indent \o <<"1", ".", SP>> \o content

\* the replacement function of convertLists
listRender(marks, content) ==
    LET level == Len(marks)
        indent == Repeat(<<SP, SP>>, level - 1)
    IN  IF marks[1] = "*" THEN indent \o <<"-", SP>> \o content
        ELSE indent \o <<"1", ".", SP>> \o content

RECURSIVE listsFrom(_, _)
listsFrom(str, i) ==
    IF i > Len(str) THEN <<>>
    ELSE LET m == IF LineStartAt(str, i) THEN listMatchAt(str, i) ELSE <<>>
         IN  IF m # <<>> THEN listRender(m[1], m[2]) \o listsFrom(str, m[3])
             ELSE <<str[i]>> \o listsFrom(str, i + 1)

convertLists(str) == listsFrom(str, 1)

(***************************************************************************)
\* convertHeadings: (?m)^h([1-6])\.\s*(.*)$
(***************************************************************************)
HeadingDigits == {"1", "2", "3", "4", "5", "6"}

\* int(level[0] - '0')
DigitValue(d) ==
    CASE d = "1" -> 1 [] d = "2" -> 2 [] d = "3" -> 3
      [] d = "4" -> 4 [] d = "5" -> 5 [] d = "6" -> 6

\* <<level digit, title, one past the match>> or <<>>
headingMatchAt(str, i) ==
    IF /\ i + 2 <= Len(str)
       /\ str[i] = "h"
       /\ str[i + 1] \in HeadingDigits
       /\ str[i + 2] = "."
    THEN LET c == RunEndIn(str, i + 3, ReSpace)
             e == RunEndNotIn(str, c, {NL})
         IN  <<str[i + 1], SubSeq(str, c, e - 1), e>>
    ELSE <<>>

\* convertHeadings without the space after the # run
headingRenderNoSpace(level, title) == Repeat(<<"#">>, DigitValue(level)) \o title

headingRender(level, title) == Repeat(<<"#">>, DigitValue(level)) \o <<SP>> \o title

RECURSIVE headingsFrom(_, _)
headingsFrom(str, i) ==
    IF i > Len(str) THEN <<>>
    ELSE LET m == IF LineStartAt(str, i) THEN headingMatchAt(str, i) ELSE <<>>
         IN  IF m # <<>> THEN headingRender(m[1], m[2]) \o headingsFrom(str, m[3])
             ELSE <<str[i]>> \o headingsFrom(str, i + 1)

convertHeadings(str) == headingsFrom(str, 1)

(***************************************************************************)
\* convertLinks: \[([^\]|]+)\|([^\]]+)\] then \[(https?://[^\]]+)\]
(***************************************************************************)
\* re1 at i: <<text, url, one past the match>> or <<>>
classicLinkAt(str, i) ==
    IF str[i] # "[" THEN <<>>
    ELSE LET b == RunEndNotIn(str, i + 1, {"]", "|"})
         IN  IF b > i + 1 /\ b <= Len(str) /\ str[b] = "|"
             THEN LET e == RunEndNotIn(str, b + 1, {"]"})
                  IN  IF e > b + 1 /\ e <= Len(str)
                      THEN <<SubSeq(str, i + 1, b - 1), SubSeq(str, b + 1, e - 1), e + 1>>
                      ELSE <<>>
             ELSE <<>>

RECURSIVE classicLinksFrom(_, _)
classicLinksFrom(str, i) ==
    IF i > Len(str) THEN <<>>
    ELSE LET m == classicLinkAt(str, i)
         IN  IF m # <<>>
             THEN <<"[">> \o m[1] \o <<"]", "(">> \o m[2] \o <<")">>
                    \o classicLinksFrom(str, m[3])
             ELSE <<str[i]>> \o classicLinksFrom(str, i + 1)

\* re2 at i: <<url, one past the match>> or <<>>
bareLinkAt(str, i) ==
    IF ~(str[i] = "[" /\ HasPrefixAt(str, i + 1, HttpLit)) THEN <<>>
    ELSE LET c == IF i + 5 <= Len(str) /\ str[i + 5] = "s" THEN i + 6 ELSE i + 5
         IN  IF ~HasPrefixAt(str, c, SchemeSep) THEN <<>>
             ELSE LET e == RunEndNotIn(str, c + 3, {"]"})
                  IN  IF e > c + 3 /\ e <= Len(str)
                      THEN <<SubSeq(str, i + 1, e - 1), e + 1>>
                      ELSE <<>>

RECURSIVE bareLinksFrom(_, _)
bareLinksFrom(str, i) ==
    IF i > Len(str) THEN <<>>
    ELSE LET m == bareLinkAt(str, i)
         IN  IF m # <<>> THEN m[1] \o bareLinksFrom(str, m[2])
             ELSE <<str[i]>> \o bareLinksFrom(str, i + 1)

convertLinks(str) == bareLinksFrom(classicLinksFrom(str, 1), 1)

(***************************************************************************)
\* convertInlineCode: \{\{([^}]+)\}\}
(***************************************************************************)
\* <<expr, one past the match>> or <<>>
inlineCodeAt(str, i) ==
    IF ~HasPrefixAt(str, i, <<"{", "{">>) THEN <<>>
    ELSE LET e == RunEndNotIn(str, i + 2, {"}"})
         IN  IF e > i + 2 /\ HasPrefixAt(str, e, <<"}", "}">>)
             THEN <<SubSeq(str, i + 2, e - 1), e + 2>>
             ELSE <<>>

RECURSIVE inlineCodeFrom(_, _)
inlineCodeFrom(str, i) ==
    IF i > Len(str) THEN <<>>
    ELSE LET m == inlineCodeAt(str, i)
         IN  IF m # <<>> THEN <<BT>> \o m[1] \o <<BT>> \o inlineCodeFrom(str, m[2])
             ELSE <<str[i]>> \o inlineCodeFrom(str, i + 1)

convertInlineCode(str) == inlineCodeFrom(str, 1)

(***************************************************************************)
(* convertInlineStyles: bold, italic, strike, underline, in this order     *)
(***************************************************************************)
\* bold, (?m)(^|[^*])\*([^*\n]+)\* at i: <<$1, $2, one past the match>> or <<>>
boldAt(str, i) ==
    LET q == IF str[i] = "*" THEN i ELSE i + 1
        e == RunEndNotIn(str, q + 1, {"*", NL})
    IN  IF /\ (str[i] = "*" => LineStartAt(str, i))
           /\ q <= Len(str)
           /\ str[q] = "*"
           /\ e > q + 1
           /\ e <= Len(str)
           /\ str[e] = "*"
        THEN <<SubSeq(str, i, q - 1), SubSeq(str, q + 1, e - 1), e + 1>>
        ELSE <<>>

RECURSIVE boldFrom(_, _)
boldFrom(str, i) ==
    IF i > Len(str) THEN <<>>
    ELSE LET m == boldAt(str, i)
         IN  IF m # <<>>
             THEN m[1] \o <<"*", "*">> \o m[2] \o <<"*", "*">> \o boldFrom(str, m[3])
             ELSE <<str[i]>> \o boldFrom(str, i + 1)

\* d([^d]+)d at i: the interior may run over a line end
delimAtAcrossLines(str, i, d) ==
    LET e == RunEndNotIn(str, i + 1, {d})
    IN  IF str[i] = d /\ e > i + 1 /\ e <= Len(str) /\ str[e] = d
        THEN <<SubSeq(str, i + 1, e - 1), e + 1>>
        ELSE <<>>

\* d([^d\n]+)d at i, for a one-character delimiter d: <<$1, one past the match>> or <<>>
delimAt(str, i, d) ==
    LET e == RunEndNotIn(str, i + 1, {d, NL})
    IN  IF str[i] = d /\ e > i + 1 /\ e <= Len(str) /\ str[e] = d
        THEN <<SubSeq(str, i + 1, e - 1), e + 1>>
        ELSE <<>>

RECURSIVE delimFrom(_, _, _, _, _)
delimFrom(str, i, d, open, close) ==
    IF i > Len(str) THEN <<>>
    ELSE LET m == delimAt(str, i, d)
         IN  IF m # <<>> THEN open \o m[1] \o close \o delimFrom(str, m[2], d, open, close)
             ELSE <<str[i]>> \o delimFrom(str, i + 1, d, open, close)

styleBold(str) == boldFrom(str, 1)
styleItalic(str) == delimFrom(str, 1, "_", <<"*">>, <<"*">>)
styleStrike(str) == delimFrom(str, 1, "-", <<"~", "~">>, <<"~", "~">>)
styleUnderline(str) == delimFrom(str, 1, "+", <<"<", "u", ">">>, <<"<", "/", "u", ">">>)

\* variant: the italic substitution runs before the bold one
convertInlineStylesItalicFirst(str) == styleUnderline(styleStrike(styleBold(styleItalic(str))))

convertInlineStyles(str) == styleUnderline(styleStrike(styleItalic(styleBold(str))))

(***************************************************************************)
(* convertTables, convertTableBlock, parseJiraTableRow                     *)
(***************************************************************************)
\* strings.Join(strings.Fields(strings.TrimSpace(p)), " ")
tableCell(p) == Join(Fields(TrimSpace(p)), <<SP>>)

\* the cells of a row; the empty sequence stands for nil
parseJiraTableRow(line, header) ==
    LET t0 == TrimSpace(line)
        t1 == IF header THEN ReplaceAll(t0, <<"|", "|">>, <<"|">>) ELSE t0
        trimmed == Trim(t1, {"|", SP})
        parts == Split(trimmed, "|")
    IN  IF trimmed = <<>> THEN <<>>
        ELSE [k \in 1..Len(parts) |-> tableCell(parts[k])]

\* "| " + strings.Join(cells, " | ") + " |"
tableRow(cells) == <<"|", SP>> \o Join(cells, <<SP, "|", SP>>) \o <<SP, "|">>

RECURSIVE tableBodyRows(_)
tableBodyRows(block) ==
    IF Len(block) = 0 THEN <<>>
    ELSE IF TrimSpace(block[1]) = <<>> THEN tableBodyRows(Tail(block))
    ELSE <<tableRow(parseJiraTableRow(block[1], FALSE))>> \o tableBodyRows(Tail(block))

\* variant: a header row and a separator row are written for every || line
convertTableBlockEmptyHeader(block) ==
    IF Len(block) = 0 THEN <<>>
    ELSE LET isHeader == Contains(TrimSpace(block[1]), <<"|", "|">>)
             header == IF isHeader THEN parseJiraTableRow(block[1], TRUE) ELSE <<>>
             rest == IF isHeader THEN Tail(block) ELSE block
             sep == [k \in 1..Len(header) |-> <<"-", "-", "-">>]
         IN  (IF isHeader THEN <<tableRow(header), tableRow(sep)>> ELSE <<>>)
               \o tableBodyRows(rest)

convertTableBlock(block) ==
    IF Len(block) = 0 THEN <<>>
    ELSE LET isHeader == Contains(TrimSpace(block[1]), <<"|", "|">>)
             header == IF isHeader THEN parseJiraTableRow(block[1], TRUE) ELSE <<>>
             rest == IF isHeader THEN Tail(block) ELSE block
             sep == [k \in 1..Len(header) |-> <<"-", "-", "-">>]
         IN  (IF isHeader /\ Len(header) > 0
              THEN <<tableRow(header), tableRow(sep)>> ELSE <<>>)
               \o tableBodyRows(rest)

\* strings.HasPrefix(strings.TrimSpace(line), "|")
isTableLine(line) == HasPrefixAt(TrimSpace(line), 1, <<"|">>)

RECURSIVE tablesFromLineByLine(_, _)
\* variant: every table line is a block of its own
tablesFromLineByLine(lines, i) ==
    IF i > Len(lines) THEN <<>>
    ELSE IF isTableLine(lines[i])
    THEN convertTableBlock(<<lines[i]>>) \o tablesFromLineByLine(lines, i + 1)
    ELSE <<lines[i]>> \o tablesFromLineByLine(lines, i + 1)

RECURSIVE tablesFrom(_, _)
tablesFrom(lines, i) ==
    IF i > Len(lines) THEN <<>>
    ELSE IF isTableLine(lines[i])
    THEN LET J == {j \in i..Len(lines) : ~isTableLine(lines[j])}
             e == IF J = {} THEN Len(lines) + 1 ELSE Min(J)
         IN  convertTableBlock(SubSeq(lines, i, e - 1)) \o tablesFrom(lines, e)
    ELSE <<lines[i]>> \o tablesFrom(lines, i + 1)

convertTables(str) == Join(tablesFrom(Split(str, NL), 1), <<NL>>)

(***************************************************************************)
(* Trailing whitespace trim (ConvertJiraToMarkdown, last step)             *)
(***************************************************************************)
\* variant: the lines are joined again with \r\n
trimTrailingWhitespaceCrLf(str) ==
    LET lines == Split(str, NL)
    IN  Join([k \in 1..Len(lines) |-> TrimRight(lines[k], {SP, TAB})], <<CR, NL>>)

\* variant: only spaces are trimmed from the line ends
trimTrailingSpaces(str) ==
    LET lines == Split(str, NL)
    IN  Join([k \in 1..Len(lines) |-> TrimRight(lines[k], {SP})], <<NL>>)

trimTrailingWhitespace(str) ==
    LET lines == Split(str, NL)
    IN  Join([k \in 1..Len(lines) |-> TrimRight(lines[k], {SP, TAB})], <<NL>>)

(***************************************************************************)
(* ConvertJiraToMarkdown as one function                                   *)
(***************************************************************************)
ConvertJiraToMarkdown(t) ==
    IF t = <<>> THEN <<>>
    ELSE trimTrailingWhitespace(convertTables(convertInlineStyles(convertInlineCode(
           convertLinks(convertHeadings(convertLists(convertQuoteBlocks(
             convertCodeBlocks(normalizeNewlines(t))))))))))

(***************************************************************************)
(* The run of one ConvertJiraToMarkdown call                               *)
(***************************************************************************)
StageOrder == <<"Normalize", "CodeBlocks", "QuoteBlocks", "Lists", "Headings", "Links",
                "InlineCode", "InlineStyles", "Tables", "TrailingWhitespaceTrim">>

Call(stage, in, out) == [stage |-> stage, in |-> in, out |-> out]

\* a stage that is one function call: s = f(s)
RunStage(stage, out, next) ==
    /\ pc = stage
    /\ s' = out
    /\ hist' = Append(hist, Call(stage, s, out))
    /\ pc' = next
    /\ UNCHANGED <<text, loc, shape>>

\* variant: the empty input gives one empty line
ReturnEmptyLine ==
    /\ pc = "start"
    /\ text = <<>>
    /\ s' = <<NL>>
    /\ pc' = "done"
    /\ UNCHANGED <<text, loc, hist, shape>>

\* if text == "" { return "" }
ReturnEmpty ==
    /\ pc = "start"
    /\ text = <<>>
    /\ s' = <<>>
    /\ pc' = "done"
    /\ UNCHANGED <<text, loc, hist, shape>>

Normalize ==
    /\ pc = "start"
    /\ text # <<>>
    /\ s' = normalizeNewlines(text)
    /\ hist' = Append(hist, Call("Normalize", text, s'))
    /\ pc' = "CodeBlocks"
    /\ UNCHANGED <<text, loc, shape>>

\* s = convertCodeBlocks(s): the call, the loop iterations, the return
CodeBlocksCall ==
    /\ pc = "CodeBlocks"
    /\ loc' = s
    /\ pc' = "CodeBlocksLoop"
    /\ UNCHANGED <<text, s, hist, shape>>

CodeBlocksStep ==
    /\ pc = "CodeBlocksLoop"
    /\ codeFind(loc) # 0
    /\ loc' = codeBlockStep(loc)
    /\ UNCHANGED <<text, s, pc, hist, shape>>

CodeBlocksReturn ==
    /\ pc = "CodeBlocksLoop"
    /\ codeFind(loc) = 0
    /\ s' = loc
    /\ hist' = Append(hist, Call("CodeBlocks", s, loc))
    /\ pc' = "QuoteBlocks"
    /\ loc' = <<>>
    /\ UNCHANGED <<text, shape>>

\* s = convertQuoteBlocks(s)
QuoteBlocksCall ==
    /\ pc = "QuoteBlocks"
    /\ loc' = s
    /\ pc' = "QuoteBlocksLoop"
    /\ UNCHANGED <<text, s, hist, shape>>

QuoteBlocksStep ==
    /\ pc = "QuoteBlocksLoop"
    /\ quoteFind(loc) # 0
    /\ loc' = quoteBlockStep(loc)
    /\ UNCHANGED <<text, s, pc, hist, shape>>

QuoteBlocksReturn ==
    /\ pc = "QuoteBlocksLoop"
    /\ quoteFind(loc) = 0
    /\ s' = loc
    /\ hist' = Append(hist, Call("QuoteBlocks", s, loc))
    /\ pc' = "Lists"
    /\ loc' = <<>>
    /\ UNCHANGED <<text, shape>>

\* variant: the heading stage is left out
ListsThenLinks == RunStage("Lists", convertLists(s), "Links")

Lists == RunStage("Lists", convertLists(s), "Headings")
Headings == RunStage("Headings", convertHeadings(s), "Links")
Links == RunStage("Links", convertLinks(s), "InlineCode")
InlineCode == RunStage("InlineCode", convertInlineCode(s), "InlineStyles")
\* variant: the table pass runs before the inline-style pass
InlineStylesAfterTables ==
    RunStage("InlineStyles", convertInlineStyles(convertTables(s)), "Tables")

InlineStyles == RunStage("InlineStyles", convertInlineStyles(s), "Tables")
Tables == RunStage("Tables", convertTables(s), "TrailingWhitespaceTrim")
\* the last stage: its result is the return value
TrailingWhitespaceTrim == RunStage("TrailingWhitespaceTrim", trimTrailingWhitespace(s), "done")

Next ==
    \/ ReturnEmpty
    \/ Normalize
    \/ CodeBlocksCall
    \/ CodeBlocksStep
    \/ CodeBlocksReturn
    \/ QuoteBlocksCall
    \/ QuoteBlocksStep
    \/ QuoteBlocksReturn
    \/ Lists
    \/ Headings
    \/ Links
    \/ InlineCode
    \/ InlineStyles
    \/ Tables
    \/ TrailingWhitespaceTrim

\* a call with argument t, put together as p, before its first statement
Start(t, p) ==
    /\ text = t
    /\ shape = p
    /\ s = <<>>
    /\ loc = <<>>
    /\ pc = "start"
    /\ hist = <<>>

(***************************************************************************)
(* Input documents                                                         *)
(***************************************************************************)
RECURSIVE Flatten(_)
\* the concatenation of a sequence of strings
Flatten(parts) == IF Len(parts) = 0 THEN <<>> ELSE parts[1] \o Flatten(Tail(parts))

SeqsUpTo(S, n) == UNION {[1..k -> S] : k \in 0..n}

CodeGo == <<"{", "c", "o", "d", "e", ":", "g", "o", "}">>

\* documents of up to MaxTokens tokens: block markers, line endings, text
MaxTokens == 4
GenTokens == {CodeTag, CodeGo, QuoteTag, <<NL>>, <<CR>>, <<"a">>, <<SP>>}
GenDocs == {Flatten(ts) : ts \in SeqsUpTo(GenTokens, MaxTokens)}

Raw == [kind |-> "raw"]

Init == \E t \in GenDocs : Start(t, Raw)

Spec == Init /\ [][Next]_vars

\* the inputs of the unit tests for the empty string, a code block and a quote block
BaseDocs ==
    { <<>>,
      CodeGo \o <<NL, "a", NL>> \o CodeTag,
      QuoteTag \o <<NL, "a", NL>> \o QuoteTag }

InitBase == \E t \in BaseDocs : Start(t, Raw)

\* text around a construct: nothing, or a line of plain text before and after
PlainLines == { <<<<>>, <<>>>>, <<<<"a", NL>>, <<NL, "a">>>> }

\* documents holding one well-formed code block: an opener line, the interior, a
\* closing line.  The interior is any text of up to MaxPayload payload characters.
MaxPayload == 3
PayloadChars == {"a", "*", "_", "#", "-", "+", "|", SP, NL}

CodeDoc(p) == p.pre \o p.opener \o <<NL>> \o p.interior \o <<NL>> \o CodeTag \o p.post

InitCode ==
    \/ InitBase
    \/ \E c \in PlainLines, o \in {CodeTag, CodeGo}, i \in SeqsUpTo(PayloadChars, MaxPayload) :
          LET p == [kind |-> "code", pre |-> c[1], opener |-> o, interior |-> i, post |-> c[2]]
          IN  Start(CodeDoc(p), p)

SpecCode == InitCode /\ [][Next]_vars

\* text around an inline construct: nothing, or plain words before and after
PlainWords == { <<<<>>, <<>>>>, <<<<"s", "e", "e", SP>>, <<SP, "n", "o", "w">>>> }

HttpScheme == HttpLit \o SchemeSep
HttpsScheme == HttpLit \o <<"s">> \o SchemeSep

\* the strings of 1..n tokens of T
Phrases(T, n) == {Flatten(ts) : ts \in (SeqsUpTo(T, n) \ {<<>>})}

\* documents holding one link: classic [text|url] or bare [url]
MaxLinkTextTokens == 2
MaxUrlTokens == 4
LinkTextTokens == {<<"a">>, HttpScheme, HttpsScheme}
UrlTokens == {HttpScheme, <<"x">>, <<"_">>, <<"-">>}
UrlTailTokens == {<<"x">>, <<"_">>, <<"-">>}

ClassicLinkDoc(p) == p.pre \o <<"[">> \o p.text \o <<"|">> \o p.url \o <<"]">> \o p.post
BareLinkDoc(p) == p.pre \o <<"[">> \o p.url \o <<"]">> \o p.post

InitLink ==
    \/ InitBase
    \/ \E c \in PlainWords, x \in Phrases(LinkTextTokens, MaxLinkTextTokens),
          u \in Phrases(UrlTokens, MaxUrlTokens) :
          LET p == [kind |-> "classic", pre |-> c[1], text |-> x, url |-> u, post |-> c[2]]
          IN  Start(ClassicLinkDoc(p), p)
    \/ \E c \in PlainWords, sch \in {HttpScheme, HttpsScheme},
          u \in Phrases(UrlTailTokens, MaxUrlTokens - 1) :
          LET p == [kind |-> "bare", pre |-> c[1], url |-> sch \o u, post |-> c[2]]
          IN  Start(BareLinkDoc(p), p)

SpecLink == InitLink /\ [][Next]_vars

\* documents of list lines: indentation, a marker run of up to MaxLevel characters,
\* spaces or tabs, content.  One list line between plain lines, or a list line
\* followed by a second one.
MaxLevel == 3
MarkerRuns == SeqsUpTo({"*", "#"}, MaxLevel) \ {<<>>}
ListIndents == {<<>>, <<SP>>, <<TAB, SP>>}
ListGaps == {<<SP>>, <<TAB>>, <<SP, SP>>}
ListContents == {<<"a">>, <<"a", SP, "b">>, <<"-", "a", "#">>}
ListLines == [indent : ListIndents, marks : MarkerRuns, gap : ListGaps, content : ListContents]
SecondListLines == [indent : {<<>>}, marks : MarkerRuns, gap : {<<SP>>}, content : {<<"a">>}]

ListLine(l) == l.indent \o l.marks \o l.gap \o l.content
ListDoc(p) ==
    p.pre \o Join([k \in 1..Len(p.lines) |-> ListLine(p.lines[k])], <<NL>>) \o p.post

InitList ==
    \/ InitBase
    \/ \E c \in PlainLines, l \in ListLines :
          LET p == [kind |-> "list", pre |-> c[1], lines |-> <<l>>, post |-> c[2]]
          IN  Start(ListDoc(p), p)
    \/ \E l \in ListLines, m \in SecondListLines :
          LET p == [kind |-> "list", pre |-> <<>>, lines |-> <<l, m>>, post |-> <<>>]
          IN  Start(ListDoc(p), p)

SpecList == InitList /\ [][Next]_vars

\* documents holding one line hN. Title, N any digit 0..7, the title up to
\* MaxTitleWords plain words
MaxTitleWords == 2
LevelDigits == {"0", "1", "2", "3", "4", "5", "6", "7"}
TitleWords == {<<"T">>, <<"a", "b">>, <<"v", "1">>}
Titles == {Join(ws, <<SP>>) : ws \in (SeqsUpTo(TitleWords, MaxTitleWords) \ {<<>>})}
HeadingDoc(p) == p.pre \o <<"h", p.level, ".", SP>> \o p.title \o p.post

InitHead ==
    \/ InitBase
    \/ \E c \in PlainLines, n \in LevelDigits, ti \in Titles :
          LET p == [kind |-> "heading", pre |-> c[1], level |-> n, title |-> ti, post |-> c[2]]
          IN  Start(HeadingDoc(p), p)

SpecHead == InitHead /\ [][Next]_vars

\* documents holding one delimiter pair d i d: d a style delimiter, the interior i
\* any text of up to MaxInterior characters, alone or in the middle of a sentence
MaxInterior == 3
StyleDelims == {"*", "_", "-", "+"}
InteriorChars == {"a", SP, NL} \cup StyleDelims
StyleDoc(p) == p.pre \o <<p.delim>> \o p.interior \o <<p.delim>> \o p.post

InitStyle ==
    \/ InitBase
    \/ \E c \in PlainWords, d \in StyleDelims, i \in SeqsUpTo(InteriorChars, MaxInterior) :
          LET p == [kind |-> "style", pre |-> c[1], delim |-> d, interior |-> i, post |-> c[2]]
          IN  Start(StyleDoc(p), p)

SpecStyle == InitStyle /\ [][Next]_vars

\* documents holding one table block: a || header line of up to MaxCols cells and up
\* to MaxBodyRows body lines, alone or between plain lines.  Each cell and each body
\* line is given with the cells it is to be read as.
MaxCols == 2
MaxBodyRows == 2
HeaderCells ==
    { [src |-> <<"a">>, cell |-> <<"a">>],
      [src |-> <<SP, "a", SP>>, cell |-> <<"a">>],
      [src |-> <<"a", SP, SP, "b">>, cell |-> <<"a", SP, "b">>],
      [src |-> <<"x", "-", "y">>, cell |-> <<"x", "-", "y">>] }
BodyLines ==
    { [src |-> <<"|", "c", "|", "d", "|">>, cells |-> <<<<"c">>, <<"d">>>>],
      [src |-> <<"|", SP, "c", SP, SP, "c", SP, "|">>, cells |-> <<<<"c", SP, "c">>>>],
      [src |-> <<"|", "c", "|">>, cells |-> <<<<"c">>>>] }
HeaderIndents == {<<>>, <<SP>>}

HeaderLine(cells) ==
    <<"|", "|">> \o Join([k \in 1..Len(cells) |-> cells[k].src], <<"|", "|">>) \o <<"|", "|">>
TableDoc(p) ==
    p.pre \o p.indent
      \o Join(<<HeaderLine(p.header)>> \o [k \in 1..Len(p.body) |-> p.body[k].src], <<NL>>)
      \o p.post

InitTable ==
    \/ InitBase
    \/ \E c \in PlainLines, ind \in HeaderIndents,
          h \in (SeqsUpTo(HeaderCells, MaxCols) \ {<<>>}),
          b \in SeqsUpTo(BodyLines, MaxBodyRows) :
          LET p == [kind |-> "table", pre |-> c[1], indent |-> ind, header |-> h,
                    body |-> b, post |-> c[2]]
          IN  Start(TableDoc(p), p)

SpecTable == InitTable /\ [][Next]_vars

\* documents holding one or two well-formed quote blocks: a {quote} line, the interior,
\* a {quote} line.  The interior is any text of up to MaxQuote characters.
MaxQuote == 3
QuoteChars == {"a", SP, TAB, NL}
SecondQuotes == {<<"a">>, <<"a", SP, NL, "a">>}
QuoteBlock(i) == QuoteTag \o <<NL>> \o i \o <<NL>> \o QuoteTag
QuoteDoc(p) ==
    p.pre \o Join([k \in 1..Len(p.blocks) |-> QuoteBlock(p.blocks[k])], <<NL>>) \o p.post

InitQuote ==
    \/ InitBase
    \/ \E c \in PlainLines, i \in SeqsUpTo(QuoteChars, MaxQuote) :
          LET p == [kind |-> "quote", pre |-> c[1], blocks |-> <<i>>, post |-> c[2]]
          IN  Start(QuoteDoc(p), p)
    \/ \E i \in SeqsUpTo(QuoteChars, MaxQuote), j \in SecondQuotes :
          LET p == [kind |-> "quote", pre |-> <<>>, blocks |-> <<i, j>>, post |-> <<>>]
          IN  Start(QuoteDoc(p), p)

SpecQuote == InitQuote /\ [][Next]_vars

\* documents holding one code block with a language tag, written plainly or with
\* spaces around it, or with none; a body of up to MaxBodyLines lines that ends in a
\* non-empty line; after the block nothing, a plain line, or a line and a further {code}
MaxBodyLines == 2
LangTags ==
    { [src |-> <<>>, lang |-> <<>>],
      [src |-> <<":", "g", "o">>, lang |-> <<"g", "o">>],
      [src |-> <<":", SP, "g", "o">>, lang |-> <<"g", "o">>],
      [src |-> <<":", "g", "o", SP, SP>>, lang |-> <<"g", "o">>],
      [src |-> <<":", SP, "c", "+", "+", TAB>>, lang |-> <<"c", "+", "+">>] }
BodyTextLines == {<<"a">>, <<"*", "x">>, <<SP, "b">>}
CodeBodies == {Join(ls, <<NL>>) : ls \in (SeqsUpTo(BodyTextLines, MaxBodyLines) \ {<<>>})}
AfterBlock == {<<>>, <<NL, "a">>, <<NL, "b", NL>> \o CodeTag}
LangOpener(l) == CodeOpen \o l.src \o <<"}">>
LangDoc(p) ==
    p.pre \o LangOpener(p.tag) \o <<NL>> \o p.body \o <<NL>> \o CodeTag \o p.post

InitLang ==
    \/ InitBase
    \/ \E pr \in {<<>>, <<"a", NL>>}, po \in AfterBlock, l \in LangTags, b \in CodeBodies :
          LET p == [kind |-> "lang", pre |-> pr, tag |-> l, body |-> b, post |-> po]
          IN  Start(LangDoc(p), p)

SpecLang == InitLang /\ [][Next]_vars

(***************************************************************************)
(* Concurrent calls.  NumCalls goroutines call ConvertJiraToMarkdown, each  *)
(* on its own argument; the scheduler interleaves their statements.  The    *)
(* function and its helpers declare no package-level variable and compile   *)
(* their regexps into locals, so the state of a call is its frame: text, s, *)
(* the loop string loc, and its position pc.  In this specification the     *)
(* variables hold one entry per call; hist records whether two calls have   *)
(* been between their first statement and their return at the same time.    *)
(***************************************************************************)
NumCalls == 2
Callers == 1..NumCalls

\* variant: every call keeps its locals in the frame of call 1
FrameShared(c) == 1

\* the frame that holds the locals of call c
FrameOf(c) == c

\* the frame r after the next statement of ConvertJiraToMarkdown
AfterStatement(r) ==
    CASE r.pc = "start" ->
           IF r.text = <<>> THEN [r EXCEPT !.s = <<>>, !.pc = "done"]
           ELSE [r EXCEPT !.s = normalizeNewlines(r.text), !.pc = "CodeBlocks"]
      [] r.pc = "CodeBlocks" -> [r EXCEPT !.loc = r.s, !.pc = "CodeBlocksLoop"]
      [] r.pc = "CodeBlocksLoop" ->
           IF codeFind(r.loc) # 0 THEN [r EXCEPT !.loc = codeBlockStep(r.loc)]
           ELSE [r EXCEPT !.s = r.loc, !.loc = <<>>, !.pc = "QuoteBlocks"]
      [] r.pc = "QuoteBlocks" -> [r EXCEPT !.loc = r.s, !.pc = "QuoteBlocksLoop"]
      [] r.pc = "QuoteBlocksLoop" ->
           IF quoteFind(r.loc) # 0 THEN [r EXCEPT !.loc = quoteBlockStep(r.loc)]
           ELSE [r EXCEPT !.s = r.loc, !.loc = <<>>, !.pc = "Lists"]
      [] r.pc = "Lists" -> [r EXCEPT !.s = convertLists(r.s), !.pc = "Headings"]
      [] r.pc = "Headings" -> [r EXCEPT !.s = convertHeadings(r.s), !.pc = "Links"]
      [] r.pc = "Links" -> [r EXCEPT !.s = convertLinks(r.s), !.pc = "InlineCode"]
      [] r.pc = "InlineCode" -> [r EXCEPT !.s = convertInlineCode(r.s), !.pc = "InlineStyles"]
      [] r.pc = "InlineStyles" -> [r EXCEPT !.s = convertInlineStyles(r.s), !.pc = "Tables"]
      [] r.pc = "Tables" ->
           [r EXCEPT !.s = convertTables(r.s), !.pc = "TrailingWhitespaceTrim"]
      [] r.pc = "TrailingWhitespaceTrim" ->
           [r EXCEPT !.s = trimTrailingWhitespace(r.s), !.pc = "done"]

InProgress(p) == p \notin {"start", "done"}

\* call c runs its next statement
CallerStep(c) ==
    /\ pc[c] # "done"
    /\ LET f == FrameOf(c)
           r == AfterStatement([text |-> text[c], s |-> s[f], loc |-> loc[f], pc |-> pc[c]])
       IN  /\ s' = [s EXCEPT ![f] = r.s]
           /\ loc' = [loc EXCEPT ![f] = r.loc]
           /\ pc' = [pc EXCEPT ![c] = r.pc]
    /\ hist' = (hist \/ \E a, b \in Callers : a # b /\ InProgress(pc'[a]) /\ InProgress(pc'[b]))
    /\ UNCHANGED <<text, shape>>

NextPar == \E c \in Callers : CallerStep(c)

ParDocs ==
    BaseDocs \cup { <<"*", SP, "a">>, <<"h", "1", ".", SP, "a">>, <<"_", "a", "_">> }

InitPar ==
    /\ text \in [Callers -> ParDocs]
    /\ s = [c \in Callers |-> <<>>]
    /\ loc = [c \in Callers |-> <<>>]
    /\ pc = [c \in Callers |-> "start"]
    /\ hist = FALSE
    /\ shape = [kind |-> "par"]

SpecPar == InitPar /\ [][NextPar]_vars

(***************************************************************************)
(* internal/git: PrepareWorkBranch and incrementBranchName.  Branch names   *)
(* are strings of characters; the repository is the set of local branches,  *)
(* the set of branches on origin and whether origin is configured.  In this *)
(* specification text is the desired name, s is finalBranchName, loc is the *)
(* repository and hist lists the branches the call has created.             *)
(***************************************************************************)
DecimalDigits == <<"0", "1", "2", "3", "4", "5", "6", "7", "8", "9">>
IsDigit(c) == \E k \in 1..10 : DecimalDigits[k] = c
DigitOf(c) == (CHOOSE k \in 1..10 : DecimalDigits[k] = c) - 1

\* the value of a non-empty string of digits
RECURSIVE DigitsValue(_)
DigitsValue(ds) ==
    IF Len(ds) = 0 THEN 0
    ELSE 10 * DigitsValue(SubSeq(ds, 1, Len(ds) - 1)) + DigitOf(ds[Len(ds)])

\* strconv.Atoi on a string without "-": an optional "+", then one or more digits;
\* [ok |-> FALSE] stands for a non-nil error
Atoi(str) ==
    LET ds == IF Len(str) > 0 /\ str[1] = "+" THEN Tail(str) ELSE str
    IN  IF Len(ds) > 0 /\ \A k \in 1..Len(ds) : IsDigit(ds[k])
        THEN [ok |-> TRUE, value |-> DigitsValue(ds)]
        ELSE [ok |-> FALSE, value |-> 0]

\* the verb %d of fmt.Sprintf for n >= 0
RECURSIVE FormatInt(_)
FormatInt(n) ==
    IF n < 10 THEN <<DecimalDigits[n + 1]>>
    ELSE FormatInt(n \div 10) \o <<DecimalDigits[(n % 10) + 1]>>

\* strings.LastIndex(name, "-"), 1-based, 0 for -1
LastDash(name) ==
    LET K == {k \in 1..Len(name) : name[k] = "-"}
    IN  IF K = {} THEN 0 ELSE CHOOSE k \in K : \A j \in K : j <= k

incrementBranchName(name) ==
    LET lastDash == LastDash(name)
        prefix == SubSeq(name, 1, lastDash - 1)
        parsed == Atoi(SubSeq(name, lastDash + 1, Len(name)))
    IN  IF lastDash = 0 THEN name \o <<"-", "2">>
        ELSE IF ~parsed.ok \/ parsed.value <= 1 THEN name \o <<"-", "2">>
        ELSE prefix \o <<"-">> \o FormatInt(parsed.value + 1)

branchExistsLocally(name) == name \in loc.local
remoteBranchExists(name) == loc.origin /\ name \in loc.remote

\* g.assertGitRepo(): outside a repository the call returns "" and an error
AssertGitRepo ==
    /\ pc = "assertGitRepo"
    /\ IF loc.repo THEN pc' = "checkoutMain" /\ s' = s
       ELSE pc' = "failed" /\ s' = <<>>
    /\ UNCHANGED <<text, loc, hist, shape>>

\* fetch, detection and checkout of the main branch, pull: the checkout succeeds or
\* the call returns its error; then finalBranchName := desiredBranchName
CheckoutMain ==
    /\ pc = "checkoutMain"
    /\ \E ok \in BOOLEAN :
          IF ok THEN pc' = "computeName" /\ s' = text
          ELSE pc' = "failed" /\ s' = <<>>
    /\ UNCHANGED <<text, loc, hist, shape>>

\* one iteration of the loop that computes the final branch name
IncrementName ==
    /\ pc = "computeName"
    /\ branchExistsLocally(s) \/ remoteBranchExists(s)
    /\ s' = incrementBranchName(s)
    /\ UNCHANGED <<text, loc, pc, hist, shape>>

\* git checkout -b finalBranchName: the branch is created and returned, or the
\* command fails and the call returns "" and the error
CreateBranch ==
    /\ pc = "computeName"
    /\ ~(branchExistsLocally(s) \/ remoteBranchExists(s))
    /\ \E ok \in BOOLEAN :
          IF ok
          THEN /\ loc' = [loc EXCEPT !.local = @ \cup {s}]
               /\ hist' = Append(hist, s)
               /\ pc' = "done"
               /\ s' = s
          ELSE /\ pc' = "failed"
               /\ s' = <<>>
               /\ UNCHANGED <<loc, hist>>
    /\ UNCHANGED <<text, shape>>

NextBranch == AssertGitRepo \/ CheckoutMain \/ IncrementName \/ CreateBranch

\* desired names, and repositories that hold some of: the desired name, the desired
\* name with a suffix -2 .. -MaxSuffix, and the names X-8, X-9
MaxSuffix == 3
DesiredNames == {<<"f">>, <<"f", "-", "x">>, <<"X", "-", "1">>, <<"X", "-", "7">>}
Suffixed(d, k) == d \o <<"-">> \o FormatInt(k)
BranchPool(d) ==
    {d} \cup {Suffixed(d, k) : k \in 2..MaxSuffix} \cup {<<"X", "-", "8">>, <<"X", "-", "9">>}

InitBranch ==
    \E d \in DesiredNames :
        /\ text = d
        /\ s = <<>>
        /\ \E l \in SUBSET BranchPool(d), r \in SUBSET {d, Suffixed(d, 2)},
              o \in BOOLEAN, g \in BOOLEAN :
              loc = [local |-> l, remote |-> r, origin |-> o, repo |-> g]
        /\ pc = "assertGitRepo"
        /\ hist = <<>>
        /\ shape = [kind |-> "branch"]

SpecBranch == InitBranch /\ [][NextBranch]_vars

(***************************************************************************)
(* The stages out of their order: a stage S is applied to a document, then  *)
(* a stage E that comes before S in the pipeline is applied to the result.  *)
(* text is the document, s the result of S, loc the result of E on s, hist  *)
(* the stages applied.                                                      *)
(***************************************************************************)
\* the function that the pipeline calls for a stage
StageFn(stage, x) ==
    CASE stage = "Normalize" -> normalizeNewlines(x)
      [] stage = "CodeBlocks" -> convertCodeBlocks(x)
      [] stage = "QuoteBlocks" -> convertQuoteBlocks(x)
      [] stage = "Lists" -> convertLists(x)
      [] stage = "Headings" -> convertHeadings(x)
      [] stage = "Links" -> convertLinks(x)
      [] stage = "InlineCode" -> convertInlineCode(x)
      [] stage = "InlineStyles" -> convertInlineStyles(x)
      [] stage = "Tables" -> convertTables(x)
      [] stage = "TrailingWhitespaceTrim" -> trimTrailingWhitespace(x)

StageIndex(stage) == CHOOSE k \in 1..Len(StageOrder) : StageOrder[k] = stage
StageNames == {StageOrder[k] : k \in 1..Len(StageOrder)}

\* a stage that changes the document is applied to it
ApplyStage(S) ==
    /\ pc = "start"
    /\ StageFn(S, text) # text
    /\ s' = StageFn(S, text)
    /\ hist' = <<S>>
    /\ pc' = "applied"
    /\ UNCHANGED <<text, loc, shape>>

\* an earlier stage, one that leaves the document itself unchanged, is applied to the
\* result
ApplyEarlierStage(E) ==
    /\ pc = "applied"
    /\ StageIndex(E) < StageIndex(hist[1])
    /\ StageFn(E, text) = text
    /\ loc' = StageFn(E, s)
    /\ hist' = Append(hist, E)
    /\ pc' = "reapplied"
    /\ UNCHANGED <<text, s, shape>>

NextOutOfOrder ==
    \/ \E S \in StageNames : ApplyStage(S)
    \/ \E E \in StageNames : ApplyEarlierStage(E)

\* documents of up to MaxPieces pieces: whole constructs of the source dialect, line
\* ends, text
MaxPieces == 2
Pieces ==
    { <<"h", "1", ".", SP, "a">>, <<"*", SP, "a">>, <<"#", SP, "a">>,
      <<"_", SP, "a", "_">>, <<"_", "a", "_">>, <<"-", "a", "-">>, <<"*", "a", "*">>,
      <<"+", "a", "+">>, <<"[", "a", "|", "b", "]">>, <<"[">> \o HttpScheme \o <<"x", "]">>,
      <<"{", "{", "a", "}", "}">>, CodeTag \o <<NL, "a", NL>> \o CodeTag,
      QuoteTag \o <<NL, "a", SP, NL>> \o QuoteTag,
      <<"|", "|", "a", "|", "|", "b", "|", "|">>, <<"|", "a", "|">>, <<"|", "[", NL, "]">>,
      <<"a">>, <<"a", SP>>, <<NL>>, <<CR>> }
PieceDocs == {Flatten(ps) : ps \in SeqsUpTo(Pieces, MaxPieces)}

InitOutOfOrder ==
    /\ text \in PieceDocs
    /\ s = <<>>
    /\ loc = <<>>
    /\ pc = "start"
    /\ hist = <<>>
    /\ shape = [kind |-> "pieces"]

SpecOutOfOrder == InitOutOfOrder /\ [][NextOutOfOrder]_vars

\* documents holding one line made of: nothing, a space or a letter; hN. with N any
\* digit 0..7; then a space and a title, a title directly, or the line end
LinePrefixes == {<<>>, <<SP>>, <<"x">>}
AfterPeriod ==
    { [gap |-> <<SP>>, title |-> <<"T">>], [gap |-> <<SP>>, title |-> <<"a", SP, "b">>],
      [gap |-> <<>>, title |-> <<"T">>], [gap |-> <<>>, title |-> <<"a", SP, "b">>],
      [gap |-> <<>>, title |-> <<>>] }
HeadingLikeDoc(p) ==
    p.pre \o p.prefix \o <<"h", p.level, ".">> \o p.rest.gap \o p.rest.title \o p.post

InitHeadLine ==
    \/ InitBase
    \/ \E c \in PlainLines, x \in LinePrefixes, n \in LevelDigits, r \in AfterPeriod :
          LET p == [kind |-> "hline", pre |-> c[1], prefix |-> x, level |-> n, rest |-> r,
                    post |-> c[2]]
          IN  Start(HeadingLikeDoc(p), p)

SpecHeadLine == InitHeadLine /\ [][Next]_vars

\* documents of one or two lines: list items, headings, plain text, and lines that hold
\* a marker run alone, with or without a space after it
MarkerLines ==
    { <<"*">>, <<"*", SP>>, <<"#">>, <<"*", "*", SP>>, <<"h", "1", ".">>, <<"h", "2", ".", SP>>,
      <<"*", SP, "a">>, <<"#", SP, "a">>, <<"h", "1", ".", SP, "T">>, <<"n", "e", "x", "t">> }
LinesDoc(ls) == Join(ls, <<NL>>)

InitLines ==
    \/ InitBase
    \/ \E l \in MarkerLines : Start(LinesDoc(<<l>>), [kind |-> "lines", lines |-> <<l>>])
    \/ \E l \in MarkerLines, m \in MarkerLines :
          Start(LinesDoc(<<l, m>>), [kind |-> "lines", lines |-> <<l, m>>])

SpecLines == InitLines /\ [][Next]_vars

\* documents holding one inline code span {{expr}}: expr any text of up to MaxExpr
\* characters without a closing brace, alone or in the middle of a sentence
MaxExpr == 3
ExprChars == {"a"} \cup StyleDelims
SpanOpen == <<"{", "{">>
SpanClose == <<"}", "}">>
SpanDoc(p) == p.pre \o SpanOpen \o p.expr \o SpanClose \o p.post

InitSpan ==
    \/ InitBase
    \/ \E c \in PlainWords, e \in SeqsUpTo(ExprChars, MaxExpr) \ {<<>>} :
          LET p == [kind |-> "span", pre |-> c[1], expr |-> e, post |-> c[2]]
          IN  Start(SpanDoc(p), p)

SpecSpan == InitSpan /\ [][Next]_vars

\* documents of up to MaxTableLines lines: header lines with and without cells, body
\* lines, and lines that are no table lines, in every order
MaxTableLines == 3
TableLines ==
    { <<"|", "|">>, <<"|", "|", SP, "|", "|">>, <<"|", "|", TAB, "|", "|">>,
      <<"|", "|", "a", "|", "|", "b", "|", "|">>, <<"|", "a", "|", "b", "|">>,
      <<SP, "|">>, <<"a", "|", "b">>, <<>> }

InitTableLines ==
    \/ InitBase
    \/ \E ls \in SeqsUpTo(TableLines, MaxTableLines) \ {<<>>} :
          Start(LinesDoc(ls), [kind |-> "tlines", lines |-> ls])

SpecTableLines == InitTableLines /\ [][Next]_vars

\* documents holding two to MaxBlocks well-formed code blocks, one after the other, with
\* the same text between each two of them.  Each block is given with its fenced form.
MaxBlocks == 3
CodeBlockForms ==
    { [src |-> CodeTag \o <<NL, "a", NL>> \o CodeTag,
       fenced |-> Fence \o <<NL, "a", NL>> \o Fence],
      [src |-> CodeGo \o <<NL, "a", NL, "*", "b", NL>> \o CodeTag,
       fenced |-> Fence \o <<"g", "o", NL, "a", NL, "*", "b", NL>> \o Fence],
      [src |-> CodeTag \o <<"c">> \o CodeTag,
       fenced |-> Fence \o <<NL, "c", NL>> \o Fence] }
BetweenBlocks == {<<>>, <<NL>>, <<NL, "x", NL>>, <<SP, "x", SP>>}
BlocksDoc(p) ==
    p.pre \o Join([k \in 1..Len(p.blocks) |-> p.blocks[k].src], p.mid) \o p.post

InitBlocks ==
    \/ InitBase
    \/ \E c \in PlainLines, m \in BetweenBlocks, n \in 2..MaxBlocks :
       \E bs \in [1..n -> CodeBlockForms] :
          LET p == [kind |-> "blocks", pre |-> c[1], blocks |-> bs, mid |-> m, post |-> c[2]]
          IN  Start(BlocksDoc(p), p)

SpecBlocks == InitBlocks /\ [][Next]_vars

\* documents whose last line holds a * or # that is no list marker: a bold word at the
\* start of the line or in mid-sentence, or a lone * or # inside the line.  Each line is
\* given with its final rendering.  Before it stands nothing, a plain line, or a line
\* that holds a marker run alone.
StarLines ==
    { [src |-> <<"*", "w", "*">>, final |-> <<"*", "*", "w", "*", "*">>],
      [src |-> <<"*", "w", "*", SP, "x">>, final |-> <<"*", "*", "w", "*", "*", SP, "x">>],
      [src |-> <<"a", SP, "*", "w", "*", SP, "c">>,
       final |-> <<"a", SP, "*", "*", "w", "*", "*", SP, "c">>],
      [src |-> <<"a", SP, "*", SP, "b">>, final |-> <<"a", SP, "*", SP, "b">>],
      [src |-> <<"a", SP, "#", SP, "b">>, final |-> <<"a", SP, "#", SP, "b">>],
      [src |-> <<"*", "a">>, final |-> <<"*", "a">>],
      [src |-> <<"#", "a">>, final |-> <<"#", "a">>] }
LinesBefore == { <<>>, <<<<"a">>>>, <<<<"*">>>>, <<<<"#", SP>>>>, <<<<"*", SP, "a">>>> }

InitStarLine ==
    \/ InitBase
    \/ \E b \in LinesBefore, l \in StarLines :
          Start(LinesDoc(b \o <<l.src>>), [kind |-> "starline", before |-> b, line |-> l])

SpecStarLine == InitStarLine /\ [][Next]_vars

\* documents of up to MaxChars characters: text, a list marker, spaces, tabs and the
\* three line endings
MaxChars == 4
WhitespaceChars == {"a", "*", SP, TAB, CR, NL}

InitWhitespace ==
    \/ InitBase
    \/ \E t \in SeqsUpTo(WhitespaceChars, MaxChars) : Start(t, [kind |-> "chars"])

SpecWhitespace == InitWhitespace /\ [][Next]_vars

\* documents holding one bullet item of level 1 to MaxLevel whose content is plain or
\* holds a - character, alone or between plain lines
DashContents ==
    { <<"a">>, <<"a", "-", "b">>, <<"a", SP, "-", SP, "b">>, <<"-", "a">>, <<"a", "-">> }
BulletDoc(p) == p.pre \o Repeat(<<"*">>, p.level) \o <<SP>> \o p.content \o p.post

InitBullet ==
    \/ InitBase
    \/ \E c \in PlainLines, l \in 1..MaxLevel, t \in DashContents :
          LET p == [kind |-> "bullet", pre |-> c[1], level |-> l, content |-> t, post |-> c[2]]
          IN  Start(BulletDoc(p), p)

SpecBullet == InitBullet /\ [][Next]_vars

(***************************************************************************)
(* createPRWithDeps (internal/cli/create_pr.go).  text is unused; shape     *)
(* holds the arguments and the configuration; loc holds the local          *)
(* variables base, draft, headBranch, issueKey; hist lists the steps taken, *)
(* each with its outcome; s is the pair of return values.                  *)
(***************************************************************************)
UpperLetters == {"A", "B", "X"}
DigitChars == {DecimalDigits[k] : k \in 1..Len(DecimalDigits)}
\* [A-Z][A-Z0-9]+-\d+ at i: one past the match, 0 when there is none
issueKeyEndAt(branch, i) ==
    LET e == RunEndIn(branch, i + 1, UpperLetters \cup DigitChars)
        d == RunEndIn(branch, e + 1, DigitChars)
    IN  IF /\ branch[i] \in UpperLetters
           /\ e > i + 1
           /\ e <= Len(branch)
           /\ branch[e] = "-"
           /\ d > e + 1
        THEN d ELSE 0

\* re.FindString(branch): the leftmost match; ok is false when there is none
extractIssueKeyFromBranch(branch) ==
    LET I == {i \in 1..Len(branch) : issueKeyEndAt(branch, i) # 0}
    IN  IF I = {} THEN [key |-> <<>>, ok |-> FALSE]
        ELSE [key |-> SubSeq(branch, Min(I), issueKeyEndAt(branch, Min(I)) - 1), ok |-> TRUE]

Step(name, ok) == [step |-> name, ok |-> ok]
ReturnError(e) == s' = [url |-> "", err |-> e] /\ pc' = "done"

\* base := overrideBase, or cfg.PullRequest.BaseBranch when that is empty;
\* draft := cfg.PullRequest.Draft, or false when forceNoDraft
ResolveBaseAndDraft ==
    /\ pc = "createPRWithDeps"
    /\ loc' = [loc EXCEPT
                 !.base = IF shape.overrideBase = "" THEN shape.cfgBase ELSE shape.overrideBase,
                 !.draft = IF shape.forceNoDraft THEN FALSE ELSE shape.cfgDraft]
    /\ pc' = "GetCurrentBranch"
    /\ UNCHANGED <<text, s, hist, shape>>

\* the branches the working tree may be on
CurrentBranches ==
    { <<"f", "/", "A", "B", "-", "1", "2", "-", "x">>, <<"A", "B", "-", "7">>,
      <<"m", "a", "i", "n">>, <<"a", "b", "-", "1">>, <<"A", "-", "1">>, <<"x", "B", "X", "2", "-", "3">> }

\* headBranch, err := gu.GetCurrentBranch()
GetCurrentBranch ==
    /\ pc = "GetCurrentBranch"
    /\ \/ /\ hist' = Append(hist, Step("GetCurrentBranch", FALSE))
          /\ ReturnError("git")
          /\ loc' = loc
       \/ \E b \in CurrentBranches :
             /\ hist' = Append(hist, Step("GetCurrentBranch", TRUE))
             /\ loc' = [loc EXCEPT !.headBranch = b]
             /\ pc' = "extractIssueKey"
             /\ s' = s
    /\ UNCHANGED <<text, shape>>

\* issueKey, ok := extractIssueKeyFromBranch(headBranch)
ExtractIssueKey ==
    /\ pc = "extractIssueKey"
    /\ LET r == extractIssueKeyFromBranch(loc.headBranch)
       IN  /\ hist' = Append(hist, Step("extractIssueKey", r.ok))
           /\ IF r.ok
              THEN loc' = [loc EXCEPT !.issueKey = r.key] /\ pc' = "GetIssue" /\ s' = s
              ELSE loc' = loc /\ ReturnError("key")
    /\ UNCHANGED <<text, shape>>

\* variant: the error of GetIssue is not looked at
GetIssueIgnoringError ==
    /\ pc = "GetIssue"
    /\ \E ok \in BOOLEAN :
          /\ hist' = Append(hist, Step("GetIssue", ok))
          /\ pc' = "formatPRBody"
          /\ s' = s
    /\ UNCHANGED <<text, loc, shape>>

\* issue, err := jc.GetIssue(issueKey)
GetIssue ==
    /\ pc = "GetIssue"
    /\ \E ok \in BOOLEAN :
          /\ hist' = Append(hist, Step("GetIssue", ok))
          /\ IF ok THEN pc' = "formatPRBody" /\ s' = s ELSE ReturnError("jira")
    /\ UNCHANGED <<text, loc, shape>>

\* title := formatPRTitle(..); body, err := formatPRBody(..): an empty template is an
\* error, and so is a failure of GetCommitMessagesForPR(base)
FormatPRBody ==
    /\ pc = "formatPRBody"
    /\ IF shape.template = ""
       THEN /\ hist' = Append(hist, Step("formatPRBody", FALSE))
            /\ ReturnError("template")
       ELSE \E ok \in BOOLEAN :
            /\ hist' = hist \o <<Step("GetCommitMessagesForPR", ok), Step("formatPRBody", ok)>>
            /\ IF ok THEN pc' = "CreatePullRequest" /\ s' = s ELSE ReturnError("log")
    /\ UNCHANGED <<text, loc, shape>>

\* return gh.CreatePullRequest(title, body, headBranch, base, draft)
CreatePullRequest ==
    /\ pc = "CreatePullRequest"
    /\ \E ok \in BOOLEAN :
          /\ hist' = Append(hist, [step |-> "CreatePullRequest", ok |-> ok,
                                   head |-> loc.headBranch, base |-> loc.base,
                                   draft |-> loc.draft])
          /\ s' = IF ok THEN [url |-> "url", err |-> ""] ELSE [url |-> "", err |-> "github"]
    /\ pc' = "done"
    /\ UNCHANGED <<text, loc, shape>>

NextCreatePR ==
    \/ ResolveBaseAndDraft
    \/ GetCurrentBranch
    \/ ExtractIssueKey
    \/ GetIssue
    \/ FormatPRBody
    \/ CreatePullRequest

\* calls with and without a base override, a draft default, --no-draft, a template
InitCreatePR ==
    /\ text = <<>>
    /\ s = [url |-> "", err |-> ""]
    /\ loc = [base |-> "", draft |-> FALSE, headBranch |-> <<>>, issueKey |-> <<>>]
    /\ pc = "createPRWithDeps"
    /\ hist = <<>>
    /\ \E o \in {"", "dev"}, d \in BOOLEAN, f \in BOOLEAN, t \in {"", "tpl"} :
          shape = [kind |-> "createpr", overrideBase |-> o, cfgBase |-> "main",
                   cfgDraft |-> d, forceNoDraft |-> f, template |-> t]

SpecCreatePR == InitCreatePR /\ [][NextCreatePR]_vars

(***************************************************************************)
(* selectIssueInteractively (start_work.go) and readString (config.go).    *)
(* text is the input stream, a sequence of lines; loc holds the number of  *)
(* issues found and the number of lines read so far; s is the pair of      *)
(* return values, issue 0 standing for nil; hist is unused.                *)
(***************************************************************************)
\* v, _ := r.ReadString('\n'); return strings.TrimSpace(v): at the end of the stream
\* ReadString gives "" and io.EOF, and the error is dropped
readString(stream, pos) == IF pos < Len(stream) THEN TrimSpace(stream[pos + 1]) ELSE <<>>
\* the reader's position after the call
readAdvance(stream, pos) == IF pos < Len(stream) THEN pos + 1 ELSE pos

ReturnIssue(i, e) == s' = [issue |-> i, err |-> e] /\ pc' = "done"

\* issues, err := jc.SearchMyIssues(15): an error, no issue, or 1 to MaxIssues issues
MaxIssues == 2
SearchMyIssues ==
    /\ pc = "selectIssueInteractively"
    /\ \E n \in 0..MaxIssues, failed \in BOOLEAN :
          /\ loc' = [loc EXCEPT !.issues = IF failed THEN 0 ELSE n]
          /\ pc' = IF failed \/ n = 0 THEN "manualEntry" ELSE "prompt"
    /\ UNCHANGED <<text, s, hist, shape>>

\* the fallback: one line is read as the key; an empty key cancels, any other key is
\* fetched with GetIssue
ManualEntry ==
    /\ pc = "manualEntry"
    /\ loc' = [loc EXCEPT !.pos = readAdvance(text, loc.pos)]
    /\ IF readString(text, loc.pos) = <<>>
       THEN ReturnIssue(0, FALSE)
       ELSE \E ok \in BOOLEAN : IF ok THEN ReturnIssue(1, FALSE) ELSE ReturnIssue(0, TRUE)
    /\ UNCHANGED <<text, hist, shape>>

\* the head of the loop: fmt.Fprint(out, "Select an issue: ")
PromptChoice ==
    /\ pc = "prompt"
    /\ pc' = "readChoice"
    /\ UNCHANGED <<text, s, loc, hist, shape>>

\* the rest of the loop body: an empty line and a line that is no number from 0 to
\* len(issues) lead back to the prompt; 0 cancels; any other number is fetched
ReadChoice ==
    /\ pc = "readChoice"
    /\ loc' = [loc EXCEPT !.pos = readAdvance(text, loc.pos)]
    /\ LET choiceStr == readString(text, loc.pos)
           choice == Atoi(choiceStr)
       IN  IF choiceStr = <<>> THEN pc' = "prompt" /\ s' = s
           ELSE IF ~choice.ok \/ choice.value < 0 \/ choice.value > loc.issues
           THEN pc' = "prompt" /\ s' = s
           ELSE IF choice.value = 0 THEN ReturnIssue(0, FALSE)
           ELSE \E ok \in BOOLEAN :
                   IF ok THEN ReturnIssue(choice.value, FALSE) ELSE ReturnIssue(0, TRUE)
    /\ UNCHANGED <<text, hist, shape>>

NextSelect == SearchMyIssues \/ ManualEntry \/ PromptChoice \/ ReadChoice

\* input streams of up to MaxInputLines lines: empty lines, choices in and out of
\* range, a choice with a space before it, a line that is no number
MaxInputLines == 2
ChoiceLines == { <<>>, <<"0">>, <<"1">>, <<"3">>, <<SP, "2">>, <<"x">> }

InitSelect ==
    /\ text \in SeqsUpTo(ChoiceLines, MaxInputLines)
    /\ s = [issue |-> 0, err |-> FALSE]
    /\ loc = [issues |-> 0, pos |-> 0]
    /\ pc = "selectIssueInteractively"
    /\ hist = <<>>
    /\ shape = [kind |-> "select"]

\* the call runs on as long as it has a statement to execute
SpecSelect == InitSelect /\ [][NextSelect]_vars /\ WF_vars(NextSelect)

(***************************************************************************)
(* Properties                                                              *)
(***************************************************************************)
HasCall(stage) == \E k \in 1..Len(hist) : hist[k].stage = stage
CallOf(stage) == hist[CHOOSE k \in 1..Len(hist) : hist[k].stage = stage]

\* C1: for a non-empty input the ten stages run once each, in the order Normalize,
\* CodeBlocks, QuoteBlocks, Lists, Headings, Links, InlineCode, InlineStyles, Tables,
\* TrailingWhitespaceTrim; the first stage gets the input, every later stage gets the
\* result of the stage before it, and the result of the last stage is returned.
StagesRunOnceInOrder ==
    /\ Len(hist) <= Len(StageOrder)
    /\ \A k \in 1..Len(hist) :
          /\ hist[k].stage = StageOrder[k]
          /\ hist[k].in = (IF k = 1 THEN text ELSE hist[k - 1].out)
    /\ (pc = "done" /\ text # <<>>) =>
          /\ Len(hist) = Len(StageOrder)
          /\ s = hist[Len(hist)].out

\* a finished call in which the block stages and the final trim all changed the document
StagesRunOnceInOrderWitness ==
    /\ pc = "done"
    /\ Len(hist) = 10
    /\ hist[1].in # hist[1].out
    /\ hist[2].in # hist[2].out
    /\ hist[10].in # hist[10].out

\* the statements of ConvertJiraToMarkdown in program order
PcOrder == <<"start", "CodeBlocks", "CodeBlocksLoop", "QuoteBlocks", "QuoteBlocksLoop",
             "Lists", "Headings", "Links", "InlineCode", "InlineStyles", "Tables",
             "TrailingWhitespaceTrim", "done">>
Rank(p) == CHOOSE k \in 1..Len(PcOrder) : PcOrder[k] = p

\* the number of places where p occurs in str
Count(str, p) == Cardinality({j \in 1..Len(str) : HasPrefixAt(str, j, p)})

\* what a loop iteration uses up: the closing markers left in the local string
MarkersLeft(p, str) ==
    IF p = "CodeBlocksLoop" THEN Count(str, CodeTag)
    ELSE IF p = "QuoteBlocksLoop" THEN Count(str, QuoteTag)
    ELSE 0

\* C3: every call ends with a returned string, also on unmatched, repeated or interleaved
\* {code} and {quote} markers: every step moves to a later statement of the function or,
\* inside the two find-and-replace loops, leaves fewer markers to find; so no loop runs
\* forever, and the only state without a next statement is the return.
ConvertTerminates ==
    [][\/ Rank(pc') > Rank(pc)
       \/ /\ pc' = pc
          /\ MarkersLeft(pc, loc') < MarkersLeft(pc, loc)]_vars

\* a finished call whose input interleaves a quote marker with two code markers
ConvertTerminatesWitness ==
    /\ pc = "done"
    /\ HasPrefixAt(text, 1, CodeTag \o QuoteTag \o CodeTag)
    /\ Len(text) > 19

ToCRLF(x) == ReplaceAll(x, <<NL>>, <<CR, NL>>)
ToCR(x) == ReplaceAll(x, <<NL>>, <<CR>>)

\* C4: a document x without \r converts to the same result as x with every \n replaced
\* by \r\n and as x with every \n replaced by \r, whichever of the three is the input of
\* the call; a \r\n pair is one line ending.
LineEndingVariantsAgree ==
    pc = "done" =>
      LET x == normalizeNewlines(text)
      IN  /\ ~Contains(text, <<CR>>) =>
                /\ ConvertJiraToMarkdown(ToCRLF(text)) = s
                /\ ConvertJiraToMarkdown(ToCR(text)) = s
                /\ Len(Split(normalizeNewlines(ToCRLF(text)), NL)) = Len(Split(text, NL))
          /\ text \in {ToCRLF(x), ToCR(x)} => s = ConvertJiraToMarkdown(x)

\* a finished call on a document with a line ending, no \r, and a converted block
LineEndingVariantsAgreeWitness ==
    /\ pc = "done"
    /\ Contains(text, <<NL>>)
    /\ ~Contains(text, <<CR>>)
    /\ s # text

\* a finished call on a \r\n document
LineEndingCrLfReached == pc = "done" /\ Contains(text, <<CR, NL>>) /\ text = ToCRLF(normalizeNewlines(text))

\* C2: in a document with one well-formed code block and plain text around it, the
\* document that the CodeBlocks stage returns is the final result: no later stage
\* rewrites the lines between the fences, whatever markup characters they hold.
CodePayloadUntouchedByLaterStages ==
    (pc = "done" /\ shape.kind = "code") => s = CallOf("CodeBlocks").out

\* the lines of a code block's interior, and how many empty lines end them
InteriorLines == Split(shape.interior, NL)
TrailingBlanks(lines) ==
    LET K == {k \in 1..Len(lines) : lines[k] # <<>>}
    IN  IF K = {} THEN Len(lines) ELSE Len(lines) - (CHOOSE k \in K : \A j \in K : j <= k)

\* the language tag of the opener
OpenerLang == IF shape.opener = CodeGo THEN <<"g", "o">> ELSE <<>>

\* the lines between the two fence lines of the CodeBlocks result
FencedLines ==
    LET out == CallOf("CodeBlocks").out
        all == Split(SubSeq(out, Len(shape.pre) + 1, Len(out) - Len(shape.post)), NL)
    IN  SubSeq(all, 2, Len(all) - 1)

LinesWithoutTrailingBlanks(lines) ==
    LET n == Len(lines) - TrailingBlanks(lines)
    IN  IF n = 0 THEN << <<>> >> ELSE SubSeq(lines, 1, n)

RenderedLink ==
    IF shape.kind = "classic"
    THEN shape.pre \o <<"[">> \o shape.text \o <<"]", "(">> \o shape.url \o <<")">> \o shape.post
    ELSE shape.pre \o shape.url \o shape.post

\* C6: the Link stage turns a classic link [text|url] into exactly [text](url), also when
\* the text is itself a URL, and a bare link [http://...] into the URL without brackets.
LinkStageRendersLinks ==
    (shape.kind \in {"classic", "bare"} /\ HasCall("Links") /\ CallOf("Links").in = text) =>
        CallOf("Links").out = RenderedLink

\* C7: the text and the URL of a converted link reach the final output as the Link stage
\* wrote them, also when the URL holds two _ or two - : no later stage rewrites them.
LinkPayloadUntouchedByLaterStages ==
    (pc = "done" /\ shape.kind \in {"classic", "bare"}) => s = CallOf("Links").out

\* the rendering of one list line: 2*(L-1) spaces, the marker of the first
\* character of the run, the content
RenderedListLine(l) ==
    Repeat(<<SP>>, 2 * (Len(l.marks) - 1))
      \o (IF l.marks[1] = "*" THEN <<"-", SP>> ELSE <<"1", ".", SP>>) \o l.content

RenderedList ==
    shape.pre \o Join([k \in 1..Len(shape.lines) |-> RenderedListLine(shape.lines[k])], <<NL>>)
      \o shape.post

\* C8: the List stage renders each list line (indentation, a run of L markers, spaces
\* or tabs, content) as 2*(L-1) spaces, then "- " when the run starts with * and "1. "
\* when it starts with #, then the content; the source indentation is discarded and in
\* a mixed run the first character alone selects the marker.
ListStageRendersItems ==
    (shape.kind = "list" /\ HasCall("Lists")) =>
        /\ CallOf("Lists").in = text
        /\ CallOf("Lists").out = RenderedList

\* an indented line with the mixed run *# has been rendered as a bullet at level 2
ListStageRendersItemsWitness ==
    /\ shape.kind = "list"
    /\ HasCall("Lists")
    /\ Len(shape.lines) = 1
    /\ shape.pre = <<>> /\ shape.post = <<>>
    /\ shape.lines[1].indent = <<TAB, SP>>
    /\ shape.lines[1].marks = <<"*", "#">>
    /\ shape.lines[1].content = <<"a">>
    /\ CallOf("Lists").out = <<SP, SP, "-", SP, "a">>

LevelNumber(d) == CHOOSE n \in 0..7 : ToString(n) = d

\* C9: the whole conversion turns hN. Title, N in 1..6 and the title plain words, into
\* N # characters, one space and the title (not into an ordered-list line), and leaves
\* the line unchanged when N is outside 1..6.
HeadingLineRendered ==
    (pc = "done" /\ shape.kind = "heading") =>
        IF shape.level \in {"1", "2", "3", "4", "5", "6"}
        THEN s = shape.pre \o Repeat(<<"#">>, LevelNumber(shape.level)) \o <<SP>>
                   \o shape.title \o shape.post
        ELSE s = text

\* h3. a b T between two plain lines has come out as ### a b T
HeadingLineRenderedWitness ==
    /\ pc = "done"
    /\ shape.kind = "heading"
    /\ shape.level = "3"
    /\ shape.pre = <<"a", NL>>
    /\ s = <<"a", NL, "#", "#", "#", SP, "a", "b", SP, "T", NL, "a">>

\* h7. T has come out unchanged
HeadingLevelOutOfRangeReached ==
    pc = "done" /\ shape.kind = "heading" /\ shape.level = "7" /\ s = text

StyleOpen(d) ==
    CASE d = "*" -> <<"*", "*">> [] d = "_" -> <<"*">> [] d = "-" -> <<"~", "~">>
      [] d = "+" -> <<"<", "u", ">">>
StyleClose(d) ==
    CASE d = "*" -> <<"*", "*">> [] d = "_" -> <<"*">> [] d = "-" -> <<"~", "~">>
      [] d = "+" -> <<"<", "/", "u", ">">>

RenderedStyle ==
    shape.pre \o StyleOpen(shape.delim) \o shape.interior \o StyleClose(shape.delim) \o shape.post

HasChar(str, c) == \E k \in 1..Len(str) : str[k] = c
Copies(str, c) == Cardinality({k \in 1..Len(str) : str[k] = c})

\* the InlineStyles stage has run on the document as written
StyleStageRan ==
    shape.kind = "style" /\ HasCall("InlineStyles") /\ CallOf("InlineStyles").in = text

\* C10, in the wording of the specification: d i d is rewritten for every non-empty
\* interior i holding no newline
\* and no copy of d; a pair with an empty interior or a newline in it is unchanged.
InlineStylesRewritePairs ==
    StyleStageRan =>
        /\ (/\ shape.interior # <<>>
            /\ ~HasChar(shape.interior, NL)
            /\ ~HasChar(shape.interior, shape.delim))
              => CallOf("InlineStyles").out = RenderedStyle
        /\ (shape.interior = <<>> \/ HasChar(shape.interior, NL))
              => CallOf("InlineStyles").out = text

\* the interior holds no copy of d and at most one copy of each other delimiter
NoOtherPair(i, d) ==
    /\ ~HasChar(i, d)
    /\ \A o \in StyleDelims \ {d} : Copies(i, o) <= 1

\* C10: d i d is rewritten to its styled form for every non-empty interior i
\* holding no newline, no copy of d and at most one copy of each other style delimiter;
\* with the same restriction on delimiters, a pair whose interior is empty or holds a
\* newline is left unchanged.
InlineStylesRewriteCleanPairs ==
    (StyleStageRan /\ NoOtherPair(shape.interior, shape.delim)) =>
        IF shape.interior # <<>> /\ ~HasChar(shape.interior, NL)
        THEN CallOf("InlineStyles").out = RenderedStyle
        ELSE CallOf("InlineStyles").out = text

\* -a b- in the middle of a sentence has been struck through
InlineStylesRewriteCleanPairsWitness ==
    /\ StyleStageRan
    /\ shape.delim = "-"
    /\ shape.interior = <<"a", SP, "a">>
    /\ CallOf("InlineStyles").out =
         <<"s", "e", "e", SP, "~", "~", "a", SP, "a", "~", "~", SP, "n", "o", "w">>

\* a pair with a newline between its delimiters has been left as it was
InlineStylesNewlinePairReached ==
    /\ StyleStageRan
    /\ shape.delim = "_"
    /\ shape.interior = <<"a", NL, "a">>
    /\ CallOf("InlineStyles").out = text

\* a rendered table row: | c1 | ... | cn |
RenderedRow(cells) == <<"|", SP>> \o Join(cells, <<SP, "|", SP>>) \o <<SP, "|">>
SeparatorRow(c) == RenderedRow([k \in 1..c |-> <<"-", "-", "-">>])

RenderedTable ==
    shape.pre
      \o Join(<<RenderedRow([k \in 1..Len(shape.header) |-> shape.header[k].cell]),
                SeparatorRow(Len(shape.header))>>
                \o [k \in 1..Len(shape.body) |-> RenderedRow(shape.body[k].cells)], <<NL>>)
      \o shape.post

\* the line of the output that holds the separator row
SeparatorLineOf(out) == Split(out, NL)[IF shape.pre = <<>> THEN 2 ELSE 3]

\* C11: a table block that starts with a || header of c >= 1 cells comes out of the Table
\* stage as the header row (cells trimmed, inner whitespace collapsed), a separator row
\* of exactly c cells ---, and the body rows in source order; in the final output the
\* separator row is | --- | ... | --- |, untouched by the strikethrough substitution.
TableHeaderAndSeparatorRendered ==
    (shape.kind = "table" /\ HasCall("Tables")) =>
        /\ CallOf("Tables").in = text => CallOf("Tables").out = RenderedTable
        /\ SeparatorLineOf(CallOf("Tables").out) = SeparatorRow(Len(shape.header))
        /\ pc = "done" => SeparatorLineOf(s) = SeparatorRow(Len(shape.header))

\* a two-column header with padded cells and two body lines has been converted
TableHeaderAndSeparatorRenderedWitness ==
    /\ shape.kind = "table"
    /\ pc = "done"
    /\ CallOf("Tables").in = text
    /\ text = <<"|", "|", SP, "a", SP, "|", "|", "a", SP, SP, "b", "|", "|", NL,
                "|", "c", "|", "d", "|", NL, "|", "c", "|">>
    /\ s = <<"|", SP, "a", SP, "|", SP, "a", SP, "b", SP, "|", NL,
             "|", SP, "-", "-", "-", SP, "|", SP, "-", "-", "-", SP, "|", NL,
             "|", SP, "c", SP, "|", SP, "d", SP, "|", NL, "|", SP, "c", SP, "|">>

\* a line as a quoted line: "> " and the line without its trailing spaces
QuotedLine(line) == <<">", SP>> \o TrimRight(line, {SP})
QuotedLines(lines) == Join([k \in 1..Len(lines) |-> QuotedLine(lines[k])], <<NL>>)

\* C12, in the wording of the specification: every {quote} region is replaced with its
\* interior lines, each prefixed with "> " and stripped of trailing spaces, in source
\* order, so that k interior lines give exactly k output lines.
QuoteStageKeepsEveryInteriorLine ==
    (shape.kind = "quote" /\ HasCall("QuoteBlocks")) =>
        CallOf("QuoteBlocks").out =
            shape.pre
              \o Join([k \in 1..Len(shape.blocks) |->
                         QuotedLines(Split(shape.blocks[k], NL))], <<NL>>)
              \o shape.post

\* the lines from the first non-empty one to the last non-empty one; one empty line
\* when all are empty
LinesWithoutOuterBlanks(lines) ==
    LET K == {k \in 1..Len(lines) : lines[k] # <<>>}
    IN  IF K = {} THEN << <<>> >>
        ELSE SubSeq(lines, CHOOSE k \in K : \A j \in K : k <= j,
                           CHOOSE k \in K : \A j \in K : j <= k)

\* C12: every {quote} region is replaced with its interior lines from the first
\* non-empty line to the last non-empty line, each prefixed with "> " and stripped of
\* trailing spaces, in source order; the marker lines and the empty lines that begin or
\* end the interior are removed, and an interior of empty lines alone gives one line "> ".
QuoteStageQuotesInteriorLines ==
    (shape.kind = "quote" /\ HasCall("QuoteBlocks")) =>
        CallOf("QuoteBlocks").out =
            shape.pre
              \o Join([k \in 1..Len(shape.blocks) |->
                         QuotedLines(LinesWithoutOuterBlanks(Split(shape.blocks[k], NL)))],
                      <<NL>>)
              \o shape.post

\* two quote blocks, each with a line that ends in a space, have been converted
QuoteStageQuotesInteriorLinesWitness ==
    /\ shape.kind = "quote"
    /\ HasCall("QuoteBlocks")
    /\ shape.blocks = << <<"a", SP>>, <<"a", SP, NL, "a">> >>
    /\ CallOf("QuoteBlocks").out = <<">", SP, "a", NL, ">", SP, "a", NL, ">", SP, "a">>

\* an interior that begins with an empty line has lost that line
QuoteStageLeadingBlankRemoved ==
    /\ shape.kind = "quote"
    /\ HasCall("QuoteBlocks")
    /\ shape.blocks = << <<NL, "a">> >>
    /\ shape.pre = <<>>
    /\ CallOf("QuoteBlocks").out = <<">", SP, "a">>

\* C13: the CodeBlocks stage replaces the region from {code:<lang>} to the next {code}
\* with a fence line of three backticks directly followed by the language without the
\* spaces around it, the body, and a closing fence line; after plain {code} the opening
\* fence carries no language.  Text after the closing {code} stays as it is.
CodeStageFencesWithLanguage ==
    (shape.kind = "lang" /\ HasCall("CodeBlocks")) =>
        CallOf("CodeBlocks").out =
            shape.pre \o Fence \o shape.tag.lang \o <<NL>> \o shape.body \o <<NL>> \o Fence
              \o shape.post

\* {code: c++<tab>} with a two-line body, followed by a further {code}, has been fenced
CodeStageFencesWithLanguageWitness ==
    /\ shape.kind = "lang"
    /\ HasCall("CodeBlocks")
    /\ shape.pre = <<>>
    /\ shape.tag.src = <<":", SP, "c", "+", "+", TAB>>
    /\ shape.body = <<"a", NL, "*", "x">>
    /\ CallOf("CodeBlocks").out =
         <<BT, BT, BT, "c", "+", "+", NL, "a", NL, "*", "x", NL, BT, BT, BT, NL, "b", NL>>
           \o CodeTag

\* a block opened by plain {code} has been fenced without a language
CodeStagePlainOpenerReached ==
    /\ shape.kind = "lang"
    /\ HasCall("CodeBlocks")
    /\ shape.tag.src = <<>>
    /\ CallOf("CodeBlocks").out = shape.pre \o <<BT, BT, BT, NL, "a", NL, BT, BT, BT>> \o shape.post

\* the places of str where a code opener, {code} or {code:go}, starts
CodeOpeners(str) == {i \in 1..Len(str) : HasPrefixAt(str, i, CodeTag) \/ HasPrefixAt(str, i, CodeGo)}

\* str holds a code opener, and no opener of str has a {code} after it
CodeUnclosed(str) ==
    /\ CodeOpeners(str) # {}
    /\ \A i \in CodeOpeners(str) : IndexFrom(str, CodeTag, i + 1) = 0

EmptyInputGivesEmptyOutput ==
    (text = <<>> /\ pc = "done") => (s = <<>> /\ hist = <<>>)

\* the call with the empty input has returned
EmptyInputGivesEmptyOutputWitness ==
    text = <<>> /\ pc = "done" /\ s = <<>>

\* C16: under every interleaving of the statements of concurrent calls, each call
\* returns the result it gives when it runs alone on its argument
ConcurrentCallsReturnOwnResult ==
    shape.kind = "par" =>
        \A c \in Callers : pc[c] = "done" => s[c] = ConvertJiraToMarkdown(text[c])

\* two calls on different documents have run at the same time and both have returned
ConcurrentCallsReturnOwnResultWitness ==
    /\ shape.kind = "par"
    /\ hist = TRUE
    /\ \A c \in Callers : pc[c] = "done"
    /\ text[1] = <<"*", SP, "a">>
    /\ text[2] = <<"_", "a", "_">>
    /\ s[1] = <<"-", SP, "a">>
    /\ s[2] = <<"*", "a", "*">>

\* the branches that existed, locally or on origin, before the call created its own
TakenBefore ==
    (loc.local \ {hist[k] : k \in 1..Len(hist)}) \cup (IF loc.origin THEN loc.remote ELSE {})

\* the desired name when it is free, else the desired name with the smallest free
\* suffix -k, k >= 2
FirstFreeName(d, taken) ==
    IF d \notin taken THEN d
    ELSE LET K == {k \in 2..(MaxSuffix + 1) : Suffixed(d, k) \notin taken}
         IN  Suffixed(d, CHOOSE k \in K : \A j \in K : k <= j)

\* C17: PrepareWorkBranch returns the desired name when it exists neither locally nor on
\* origin, and otherwise <desired>-k for the smallest k >= 2 such that <desired>-k exists
\* neither locally nor on origin, also for a desired name that ends in -<number>.
PrepareWorkBranchAppendsSuffix ==
    (shape.kind = "branch" /\ pc = "done") => s = FirstFreeName(text, TakenBefore)

ReintroducingPairs ==
    { <<"Lists", "Headings">>, <<"Lists", "InlineStyles">>,
      <<"Links", "Tables">>, <<"InlineStyles", "Tables">> }

HeadingOutputIsListLine ==
    /\ shape.kind = "pieces"
    /\ pc = "reapplied"
    /\ hist = <<"Headings", "Lists">>
    /\ text = <<"h", "1", ".", SP, "a">>
    /\ s = <<"#", SP, "a">>
    /\ loc = <<"1", ".", SP, "a">>

\* the line is of the form hN.<space>Title, N in 1..6, from its first character on
IsHeadingForm ==
    /\ shape.prefix = <<>>
    /\ shape.level \in HeadingDigits
    /\ shape.rest.gap = <<SP>>
    /\ shape.rest.title # <<>>

\* C19: the Heading stage rewrites the lines of the form hN.<space>Title, N in 1..6, and
\* no other line: hN.Title without the space and hN. directly before the line end pass
\* through the stage unchanged.
HeadingStageRewritesExactForm ==
    (shape.kind = "hline" /\ HasCall("Headings") /\ CallOf("Headings").in = text) =>
        IF IsHeadingForm
        THEN CallOf("Headings").out =
               shape.pre \o Repeat(<<"#">>, LevelNumber(shape.level)) \o <<SP>>
                 \o shape.rest.title \o shape.post
        ELSE CallOf("Headings").out = text

\* the stage gave, for each line of its input, what it gives for that line alone
StageWorkedLineByLine(stage) ==
    LET c == CallOf(stage)
        lines == Split(c.in, NL)
    IN  c.out = Join([k \in 1..Len(lines) |-> StageFn(stage, lines[k])], <<NL>>)

\* C20: the List stage and the Heading stage work line by line: the output has as many
\* lines as the input and output line i depends on input line i alone, so a line that
\* holds only a marker run is never joined with the line after it.
ListAndHeadingStagesWorkLineByLine ==
    (shape.kind = "lines" /\ HasCall("Headings")) =>
        /\ StageWorkedLineByLine("Lists")
        /\ StageWorkedLineByLine("Headings")
        /\ Len(Split(CallOf("Lists").out, NL)) = Len(Split(CallOf("Lists").in, NL))
        /\ Len(Split(CallOf("Headings").out, NL)) = Len(Split(CallOf("Headings").in, NL))

BlockStarts(lines) ==
    {i \in 1..Len(lines) : isTableLine(lines[i]) /\ (i = 1 \/ ~isTableLine(lines[i - 1]))}
\* the block starts whose line contains ||
HeaderStarts(lines) == {i \in BlockStarts(lines) : Contains(lines[i], <<"|", "|">>)}
\* a header line that holds nothing but pipes and spaces once its outer whitespace is off
HeaderWithoutCells(line) == \A k \in 1..Len(TrimSpace(line)) : TrimSpace(line)[k] \in {"|", SP}
IsSeparatorRow(line) == \E c \in 1..Len(line) : line = SeparatorRow(c)

\* C22, in the wording of the specification: a table block of n lines comes out as n+1
\* lines when its first line contains ||, a header row followed by a separator row,
\* and as n lines otherwise; no line of the block is dropped.
TableBlockKeepsEveryLine ==
    (shape.kind = "tlines" /\ HasCall("Tables")) =>
        LET lines == Split(CallOf("Tables").in, NL)
            out == Split(CallOf("Tables").out, NL)
        IN  /\ Len(out) = Len(lines) + Cardinality(HeaderStarts(lines))
            /\ 1 \in HeaderStarts(lines) => (Len(out) >= 2 /\ IsSeparatorRow(out[2]))

\* C22: a table block of n lines comes out as n+1 lines, a header row followed by a
\* separator row and the body rows, when its first line contains || and holds a
\* character other than pipes and spaces; as n-1 lines, the first line dropped and no
\* header or separator written, when its first line contains || and holds nothing
\* else; and as n lines otherwise.
TableBlockKeepsEveryLineButEmptyHeader ==
    (shape.kind = "tlines" /\ HasCall("Tables")) =>
        LET lines == Split(CallOf("Tables").in, NL)
            out == Split(CallOf("Tables").out, NL)
            empty == {i \in HeaderStarts(lines) : HeaderWithoutCells(lines[i])}
            full == HeaderStarts(lines) \ empty
        IN  \* an output without characters may hold no line or one empty line
            /\ CallOf("Tables").out # <<>> =>
                  Len(out) = Len(lines) + Cardinality(full) - Cardinality(empty)
            /\ 1 \in full => (Len(out) >= 2 /\ IsSeparatorRow(out[2]))
            /\ 1 \in empty => (Len(out) < 2 \/ ~IsSeparatorRow(out[2]))

\* a block of a header with two cells and a body line, then a line that is no table
\* line, then a block of a header without cells, has been converted
TableBlockKeepsEveryLineButEmptyHeaderWitness ==
    /\ shape.kind = "tlines"
    /\ HasCall("Tables")
    /\ shape.lines = << <<"|", "|", "a", "|", "|", "b", "|", "|">>, <<"a", "|", "b">>, <<"|", "|">> >>
    /\ CallOf("Tables").in = text
    /\ Len(Split(CallOf("Tables").out, NL)) = 3

\* a block whose header line holds no cell has been converted
TableEmptyHeaderReached ==
    /\ shape.kind = "tlines"
    /\ HasCall("Tables")
    /\ shape.lines = << <<"|", "|">>, <<"|", "a", "|", "b", "|">> >>
    /\ CallOf("Tables").out = <<"|", SP, "a", SP, "|", SP, "b", SP, "|">>

\* C23: in a document of two or more well-formed code blocks the CodeBlocks stage turns
\* each block into its own fenced block, pairing every opener with the nearest {code}
\* after it; the text between two blocks stays outside the fences, unchanged, and
\* there are as many fenced blocks as there were code blocks.
EveryCodeBlockFenced ==
    (shape.kind = "blocks" /\ HasCall("CodeBlocks")) =>
        /\ CallOf("CodeBlocks").out =
              shape.pre
                \o Join([k \in 1..Len(shape.blocks) |-> shape.blocks[k].fenced], shape.mid)
                \o shape.post
        /\ Count(CallOf("CodeBlocks").out, CodeOpen) = 0

\* three blocks, {code}, {code:go} and a one-line {code}, with a line of text between
\* each two, have been fenced
EveryCodeBlockFencedWitness ==
    /\ shape.kind = "blocks"
    /\ HasCall("CodeBlocks")
    /\ Len(shape.blocks) = 3
    /\ shape.mid = <<NL, "x", NL>>
    /\ text = CodeTag \o <<NL, "a", NL>> \o CodeTag \o <<NL, "x", NL>>
                \o CodeGo \o <<NL, "a", NL, "*", "b", NL>> \o CodeTag \o <<NL, "x", NL>>
                \o CodeTag \o <<"c">> \o CodeTag
    /\ CallOf("CodeBlocks").out =
          <<BT, BT, BT, NL, "a", NL, BT, BT, BT, NL, "x", NL,
            BT, BT, BT, "g", "o", NL, "a", NL, "*", "b", NL, BT, BT, BT, NL, "x", NL,
            BT, BT, BT, NL, "c", NL, BT, BT, BT>>

LastLine(str) == Split(str, NL)[Len(Split(str, NL))]

\* C24: a * or # makes a list item only when its run starts the line, after optional
\* spaces or tabs, and is followed by whitespace.  A line whose * or # stands elsewhere
\* comes out of the List stage as it went in, on a line of its own, and a line that
\* starts with *word* or holds *word* in mid-sentence ends as bold text.
OnlyLeadingRunsMakeListItems ==
    (shape.kind = "starline" /\ HasCall("Lists")) =>
        /\ Len(Split(CallOf("Lists").out, NL)) = Len(shape.before) + 1
        /\ LastLine(CallOf("Lists").out) = shape.line.src
        /\ pc = "done" => LastLine(s) = shape.line.final

\* the interior holds no style delimiter and no newline
PlainInterior(i) == \A k \in 1..Len(i) : i[k] \notin StyleDelims \cup {NL}

\* C25: inside the InlineStyles stage no substitution matches or rewrites the markers
\* written by an earlier one: for every non-empty interior i without *, _, -, + and
\* newline, *i* ends as exactly **i** and _i_ as exactly *i*; and on every document
\* the * written by bold and italic and the ~ written by strike are all still there
\* after the substitutions that follow.
StyleMarkersNotRematched ==
    StyleStageRan =>
        LET in == CallOf("InlineStyles").in
            out == CallOf("InlineStyles").out
            b == styleBold(in)
            it == styleItalic(b)
            st == styleStrike(it)
        IN  /\ (shape.interior # <<>> /\ PlainInterior(shape.interior) /\ shape.delim = "*")
                  => out = shape.pre \o <<"*", "*">> \o shape.interior \o <<"*", "*">> \o shape.post
            /\ (shape.interior # <<>> /\ PlainInterior(shape.interior) /\ shape.delim = "_")
                  => out = shape.pre \o <<"*">> \o shape.interior \o <<"*">> \o shape.post
            /\ Copies(it, "*") >= Copies(b, "*")
            /\ Copies(st, "*") = Copies(it, "*")
            /\ Copies(out, "*") = Copies(it, "*")
            /\ Copies(out, "~") = Copies(st, "~")

\* _a a_ in the middle of a sentence has been made italic, and not bold
StyleMarkersNotRematchedWitness ==
    /\ StyleStageRan
    /\ shape.delim = "_"
    /\ shape.interior = <<"a", SP, "a">>
    /\ CallOf("InlineStyles").out =
         <<"s", "e", "e", SP, "*", "a", SP, "a", "*", SP, "n", "o", "w">>

\* the trimmed form of the line starts with a pipe
StartsWithPipe(line) == TrimSpace(line) # <<>> /\ TrimSpace(line)[1] = "|"
\* the places of the lines that are no table lines
OtherLines(lines) == {k \in 1..Len(lines) : ~StartsWithPipe(lines[k])}
\* the j-th of these places; 0 before the first and one past the end after the last
OtherLineAt(lines, j) ==
    LET P == OtherLines(lines)
    IN  IF j = 0 THEN 0
        ELSE IF j > Cardinality(P) THEN Len(lines) + 1
        ELSE CHOOSE k \in P : Cardinality({m \in P : m < k}) = j - 1
\* the lines between the j-th and the next line that is no table line: a maximal run
LinesAfterOther(lines, j) ==
    SubSeq(lines, OtherLineAt(lines, j) + 1, OtherLineAt(lines, j + 1) - 1)

\* C26: the Table stage writes every line whose trimmed form does not start with a pipe
\* unchanged, keeps the order of lines and blocks, and takes each maximal run of
\* consecutive table lines as one block: what stands between two such lines in the
\* output is the conversion of the whole run between them in the input.
TableStageLeavesOtherLinesAlone ==
    (shape.kind = "tlines" /\ HasCall("Tables") /\ CallOf("Tables").out # <<>>) =>
        LET in == Split(CallOf("Tables").in, NL)
            out == Split(CallOf("Tables").out, NL)
            n == Cardinality(OtherLines(in))
        IN  /\ Cardinality(OtherLines(out)) = n
            /\ \A j \in 1..n : out[OtherLineAt(out, j)] = in[OtherLineAt(in, j)]
            /\ \A j \in 0..n : LinesAfterOther(out, j) = convertTableBlock(LinesAfterOther(in, j))

\* a body line and a || line after it, one block, then a line with a pipe inside that
\* is no table line, have gone through the stage: two rows and the line as it was
TableStageLeavesOtherLinesAloneWitness ==
    /\ shape.kind = "tlines"
    /\ HasCall("Tables")
    /\ shape.lines = << <<"|", "a", "|", "b", "|">>, <<"|", "|", "a", "|", "|", "b", "|", "|">>,
                        <<"a", "|", "b">> >>
    /\ CallOf("Tables").out =
         <<"|", SP, "a", SP, "|", SP, "b", SP, "|", NL,
           "|", SP, "a", SP, "|", SP, SP, "|", SP, "b", SP, "|", NL, "a", "|", "b">>

\* C27: no line of the output of ConvertJiraToMarkdown ends with a space or a tab, and
\* the output holds no carriage return.
OutputLinesEndClean ==
    pc = "done" =>
        /\ \A k \in 1..Len(Split(s, NL)) :
              LET line == Split(s, NL)[k]
              IN  line = <<>> \/ line[Len(line)] \notin {SP, TAB}
        /\ ~HasChar(s, CR)

\* a line that ends with a tab before \r and a line of one space have been converted
OutputLinesEndCleanWitness ==
    /\ pc = "done"
    /\ text = <<"a", TAB, CR, SP>>
    /\ s = <<"a", NL>>

\* C28: the line of a bullet item starts, in the final output, with two spaces for each
\* level above the first and then "- ", also when the content holds a - character:
\* neither the strikethrough substitution nor another later stage takes the marker.
BulletMarkerReachesOutput ==
    (pc = "done" /\ shape.kind = "bullet") =>
        HasPrefixAt(s, Len(shape.pre) + 1,
                    Repeat(<<SP, SP>>, shape.level - 1) \o <<"-", SP>>)

\* the steps taken so far, by name
StepNames == [k \in 1..Len(hist) |-> hist[k].step]
StepsBeforeCreate ==
    <<"GetCurrentBranch", "extractIssueKey", "GetIssue", "GetCommitMessagesForPR", "formatPRBody">>

\* C29: createPRWithDeps calls CreatePullRequest at most once, and only after
\* GetCurrentBranch, the extraction of the issue key, GetIssue and the formatting of the
\* body have succeeded, in this order; when one of them fails the call returns that
\* error and CreatePullRequest is not called.  The base passed is the override when
\* there is one and the configured base otherwise; draft is false under --no-draft.
CreatePRCalledOnceAfterAllSteps ==
    shape.kind = "createpr" =>
        LET C == {k \in 1..Len(hist) : hist[k].step = "CreatePullRequest"}
        IN  /\ Cardinality(C) <= 1
            /\ \A k \in C :
                  /\ k = Len(hist)
                  /\ SubSeq(StepNames, 1, k - 1) = StepsBeforeCreate
                  /\ \A j \in 1..(k - 1) : hist[j].ok
                  /\ hist[k].base = (IF shape.overrideBase # "" THEN shape.overrideBase
                                     ELSE shape.cfgBase)
                  /\ shape.forceNoDraft => ~hist[k].draft
                  /\ ~shape.forceNoDraft => hist[k].draft = shape.cfgDraft
                  /\ hist[k].head = loc.headBranch
            /\ (\E j \in 1..Len(hist) : hist[j].step # "CreatePullRequest" /\ ~hist[j].ok) =>
                  /\ C = {}
                  /\ pc = "done"
                  /\ ~hist[Len(hist)].ok
                  /\ s.url = ""
                  /\ s.err = (CASE hist[Len(hist)].step = "GetCurrentBranch" -> "git"
                                [] hist[Len(hist)].step = "extractIssueKey" -> "key"
                                [] hist[Len(hist)].step = "GetIssue" -> "jira"
                                [] shape.template = "" -> "template"
                                [] OTHER -> "log")

\* on branch f/AB-12-x, with the base override dev and --no-draft over a draft
\* default, the pull request has been created for base dev, not as a draft
CreatePRCalledOnceAfterAllStepsWitness ==
    /\ shape.kind = "createpr"
    /\ pc = "done"
    /\ shape.overrideBase = "dev"
    /\ shape.cfgDraft
    /\ shape.forceNoDraft
    /\ loc.issueKey = <<"A", "B", "-", "1", "2">>
    /\ Len(hist) = 6
    /\ hist[6] = [step |-> "CreatePullRequest", ok |-> TRUE,
                  head |-> <<"f", "/", "A", "B", "-", "1", "2", "-", "x">>,
                  base |-> "dev", draft |-> FALSE]
    /\ s = [url |-> "url", err |-> ""]

\* a call has returned the error of GetIssue
CreatePRIssueErrorReached ==
    shape.kind = "createpr" /\ pc = "done" /\ s.err = "jira"

\* C30: selectIssueInteractively returns for every finite input stream: with the
\* chosen issue, with a cancel, or when the stream ends before a valid choice was read.
SelectIssueEventuallyReturns == <>(pc = "done")

====
